---- MODULE Spec2Model ----
(***************************************************************************)
(* Extended Hamming SEC-DED codecs of ba-prototype-go:                     *)
(*   hamming4secded  (8, 4, 4)    src/cmd/csimpextry0/main.go              *)
(*   hamming11secded (16, 11, 4)  src/util/ecc/hamming11secded/compute.go  *)
(*   hamming57secded (64, 57, 4)  src/util/ecc/hamming11secded/compute.go  *)
(*                                                                         *)
(* An int64 / uint64 / uint8 value is modelled by the set of its one-bit   *)
(* positions (two's complement pattern, bit 63 is the sign bit), because   *)
(* the 64-bit words do not fit a model-checker integer.  AND is set        *)
(* intersection, OR is union, XOR is symmetric difference, a left shift    *)
(* adds to every position and drops what leaves bits 0..63.                *)
(***************************************************************************)
EXTENDS Integers, FiniteSets, Sequences, TLC

\* ------------------------------------------------------------------------
\* Machine words as bit sets
\* ------------------------------------------------------------------------

\* bit positions of an int64 / uint64
WordBits == 0..63

\* bit positions of a uint8
ByteBits == 0..7

Xor(a, b) == (a \ b) \cup (b \ a)

\* x << s on a 64-bit integer: bits shifted past bit 63 are lost
Shl(x, s) == {p + s : p \in {q \in x : q + s <= 63}}

\* x >> s on an unsigned integer
Shr(x, s) == {p - s : p \in {q \in x : q >= s}}

\* uint8(x): keeps the low 8 bits
Uint8(x) == x \cap ByteBits

\* the bits of one hexadecimal digit
NibbleBits(d) == {b \in 0..3 : (d \div (2^b)) % 2 = 1}

\* a hexadecimal literal, most significant digit first: 0xab41 is
\* Hex(<<10, 11, 4, 1>>)
Hex(ds) ==
    UNION {{4 * (Len(ds) - i) + b : b \in NibbleBits(ds[i])} : i \in 1..Len(ds)}

\* the number a uint8 bit set stands for
ToNat8(bs) ==
    (IF 0 \in bs THEN 1 ELSE 0) + (IF 1 \in bs THEN 2 ELSE 0) +
    (IF 2 \in bs THEN 4 ELSE 0) + (IF 3 \in bs THEN 8 ELSE 0) +
    (IF 4 \in bs THEN 16 ELSE 0) + (IF 5 \in bs THEN 32 ELSE 0) +
    (IF 6 \in bs THEN 64 ELSE 0) + (IF 7 \in bs THEN 128 ELSE 0)

\* the bit set of a small natural number
FromNat(k) == {b \in 0..20 : (k \div (2^b)) % 2 = 1}

\* int64(tagBit & 1) for a Go int tagBit of either sign: bit 0 of the two's
\* complement pattern, which is tagBit modulo 2
TagAnd1(tagBit) == IF tagBit % 2 = 1 THEN {0} ELSE {}

\* ------------------------------------------------------------------------
\* Shared helpers (identical in the three packages)
\* ------------------------------------------------------------------------

\* the loop clears the lowest one-bit of x once per iteration (x &= x - 1)
\* and counts the iterations: the number of one-bits of x
onesCount64(x) == Cardinality(x)

computeParity(val) == onesCount64(val) % 2

computeParityInt64(val) == onesCount64(val) % 2

\* int64((parity&1) << globalParityBitp), p3<<checkBitp3, ...: a 0/1 integer
\* shifted to bit position bitp
BitAt(b, bitp) == IF b % 2 = 1 THEN {bitp} ELSE {}

\* 1 << errBitPos in int64 arithmetic (a shift count above 63 gives 0)
OneShl(pos) == IF pos <= 63 THEN {pos} ELSE {}

globalParityBitp == 1
checkBitp0 == 2
checkBitp1 == 3
checkBitp2 == 4
checkBitp3 == 5
checkBitp4 == 6
checkBitp5 == 7

\* results of mapSyndromeToBitPos: a position, or one of the two panics
MapRet(errBitPos, isCheckBit) ==
    [errBitPos |-> errBitPos, isCheckBit |-> isCheckBit, panic |-> "none"]

MapPanic(msg) == [errBitPos |-> 0, isCheckBit |-> FALSE, panic |-> msg]

\* results of Correct: (nBitErrors, corrected), or the panic that unwound it;
\* parity and syndrome are Correct's local variables of the same names
CorrectRet(n, c, parity, syndrome) ==
    [nBitErrors |-> n, corrected |-> c, panic |-> "none",
     parity |-> parity, syndrome |-> syndrome]

CorrectPanic(msg, parity, syndrome) ==
    [nBitErrors |-> -1, corrected |-> {}, panic |-> msg,
     parity |-> parity, syndrome |-> syndrome]

\* ------------------------------------------------------------------------
\* hamming4secded: extended Hamming (8, 4, 4)
\* ------------------------------------------------------------------------

getHammingCheckBits4(packedCheckable) ==
    Uint8(packedCheckable \cap Hex(<<1, 12>>))                  \* 0x1c

\* computeHammingCheckBits with the tag bit folded into all three masks
computeHammingCheckBits4TagInAll(packedVal) ==
    LET u  == packedVal
        p2 == computeParity(u \cap Hex(<<14, 1>>))
        p1 == computeParity(u \cap Hex(<<12, 1>>))
        p0 == computeParity(u \cap Hex(<<10, 1>>))
        cbs == BitAt(p2, checkBitp2) \cup BitAt(p1, checkBitp1)
                 \cup BitAt(p0, checkBitp0)
    IN  Uint8(cbs)

computeHammingCheckBits4(packedVal) ==
    LET u  == packedVal
        p2 == computeParity(u \cap Hex(<<14, 0>>))              \* 0xe0
        p1 == computeParity(u \cap Hex(<<12, 1>>))              \* 0xc1
        p0 == computeParity(u \cap Hex(<<10, 1>>))              \* 0xa1
        cbs == BitAt(p2, checkBitp2) \cup BitAt(p1, checkBitp1)
                 \cup BitAt(p0, checkBitp0)
    IN  Uint8(cbs)

\* PackWithCheckBits setting the global parity bit for odd overall parity
PackWithCheckBits4OddParity(inputVal, tagBit) ==
    LET packed == Shl(inputVal, 5) \cup TagAnd1(tagBit)
        checkbits == computeHammingCheckBits4(packed)
        v == packed \cup checkbits
        parity == computeParityInt64(v)
    IN  v \cup BitAt(parity + 1, globalParityBitp)

\* PackWithCheckBits masking the input value to the 3-bit Value field
PackWithCheckBits4Masked(inputVal, tagBit) ==
    LET packed == Shl(inputVal \cap (0..2), 5) \cup TagAnd1(tagBit)
        checkbits == computeHammingCheckBits4(packed)
        v == packed \cup checkbits
        parity == computeParityInt64(v)
    IN  v \cup BitAt(parity, globalParityBitp)

PackWithCheckBits4(inputVal, tagBit) ==
    LET packed == Shl(inputVal, 5) \cup TagAnd1(tagBit)
        checkbits == computeHammingCheckBits4(packed)
        v == packed \cup checkbits
        parity == computeParityInt64(v)
    IN  v \cup BitAt(parity, globalParityBitp)

\* mapSyndromeToBitPos without the case for the tag bit's syndrome
mapSyndromeToBitPos4NoTagCase(syndrome) ==
    CASE syndrome > 7  -> MapPanic("syndrome too big")
      [] syndrome <= 7 /\ syndrome > 4 -> MapRet(syndrome, FALSE)
      [] syndrome = 4  -> MapRet(checkBitp2, TRUE)
      [] syndrome = 2  -> MapRet(checkBitp1, TRUE)
      [] syndrome = 1  -> MapRet(checkBitp0, TRUE)
      [] OTHER         -> MapPanic("syndrome not mapped")

\* mapSyndromeToBitPos adding 1 to the syndromes 5..7
mapSyndromeToBitPos4PlusOne(syndrome) ==
    CASE syndrome > 7  -> MapPanic("syndrome too big")
      [] syndrome <= 7 /\ syndrome > 4 -> MapRet(syndrome + 1, FALSE)
      [] syndrome = 4  -> MapRet(checkBitp2, TRUE)
      [] syndrome = 3  -> MapRet(0, FALSE)
      [] syndrome = 2  -> MapRet(checkBitp1, TRUE)
      [] syndrome = 1  -> MapRet(checkBitp0, TRUE)
      [] OTHER         -> MapPanic("syndrome not mapped")

mapSyndromeToBitPos4(syndrome) ==
    CASE syndrome > 7  -> MapPanic("syndrome too big")
      [] syndrome <= 7 /\ syndrome > 4 -> MapRet(syndrome, FALSE)
      [] syndrome = 4  -> MapRet(checkBitp2, TRUE)
      [] syndrome = 3  -> MapRet(0, FALSE)
      [] syndrome = 2  -> MapRet(checkBitp1, TRUE)
      [] syndrome = 1  -> MapRet(checkBitp0, TRUE)
      [] OTHER         -> MapPanic("syndrome not mapped")

Correct4(packedCheckable) ==
    LET parity == computeParityInt64(packedCheckable)
        oldCheckbits == getHammingCheckBits4(packedCheckable)
        checkbits == computeHammingCheckBits4(packedCheckable)
        syndrome == ToNat8(Shr(Xor(checkbits, oldCheckbits), 2))
        m == mapSyndromeToBitPos4(syndrome)
    IN  IF parity = 0
        THEN IF syndrome = 0
             THEN CorrectRet(0, packedCheckable, parity, syndrome)
             ELSE CorrectRet(2, {}, parity, syndrome)
        ELSE IF syndrome = 0
             THEN CorrectRet(1, Xor(packedCheckable, OneShl(globalParityBitp)),
                             parity, syndrome)
             ELSE IF m.panic # "none"
                  THEN CorrectPanic(m.panic, parity, syndrome)
                  ELSE CorrectRet(1, Xor(packedCheckable, OneShl(m.errBitPos)),
                                  parity, syndrome)

\* ------------------------------------------------------------------------
\* hamming11secded: extended Hamming (16, 11, 4)
\* ------------------------------------------------------------------------

getHammingCheckBits11(packedCheckable) ==
    Uint8(packedCheckable \cap Hex(<<3, 12>>))                  \* 0x3c

\* computeHammingCheckBits whose mask of check bit 2 (0xf1e0) selects bit 5,
\* the position of check bit 3
computeHammingCheckBits11SelfCover(packedVal) ==
    LET u  == packedVal
        p3 == computeParity(u \cap Hex(<<15, 14, 0, 0>>))
        p2 == computeParity(u \cap Hex(<<15, 1, 14, 0>>))
        p1 == computeParity(u \cap Hex(<<12, 13, 8, 1>>))
        p0 == computeParity(u \cap Hex(<<10, 11, 4, 1>>))
        cbs == BitAt(p3, checkBitp3) \cup BitAt(p2, checkBitp2)
                 \cup BitAt(p1, checkBitp1) \cup BitAt(p0, checkBitp0)
    IN  Uint8(cbs)

computeHammingCheckBits11(packedVal) ==
    LET u  == packedVal
        p3 == computeParity(u \cap Hex(<<15, 14, 0, 0>>))       \* 0xfe00
        p2 == computeParity(u \cap Hex(<<15, 1, 12, 0>>))       \* 0xf1c0
        p1 == computeParity(u \cap Hex(<<12, 13, 8, 1>>))       \* 0xcd81
        p0 == computeParity(u \cap Hex(<<10, 11, 4, 1>>))       \* 0xab41
        cbs == BitAt(p3, checkBitp3) \cup BitAt(p2, checkBitp2)
                 \cup BitAt(p1, checkBitp1) \cup BitAt(p0, checkBitp0)
    IN  Uint8(cbs)

\* PackWithCheckBits shifting the value by 5 instead of 6
PackWithCheckBits11Shift5(inputVal, tagBit) ==
    LET packed == Shl(inputVal, 5) \cup TagAnd1(tagBit)
        checkbits == computeHammingCheckBits11(packed)
        v == packed \cup checkbits
        parity == computeParityInt64(v)
    IN  v \cup BitAt(parity, globalParityBitp)

\* PackWithCheckBits taking the global parity before the check bits are in
PackWithCheckBits11EarlyParity(inputVal, tagBit) ==
    LET packed == Shl(inputVal, 6) \cup TagAnd1(tagBit)
        checkbits == computeHammingCheckBits11(packed)
        v == packed \cup checkbits
        parity == computeParityInt64(packed)
    IN  v \cup BitAt(parity, globalParityBitp)

PackWithCheckBits11(inputVal, tagBit) ==
    LET packed == Shl(inputVal, 6) \cup TagAnd1(tagBit)
        checkbits == computeHammingCheckBits11(packed)
        v == packed \cup checkbits
        parity == computeParityInt64(v)
    IN  v \cup BitAt(parity, globalParityBitp)

\* mapSyndromeToBitPos not skipping check bit 3 for the syndromes 5..7
mapSyndromeToBitPos11NoSkip(syndrome) ==
    CASE syndrome > 15 -> MapPanic("syndrome too big")
      [] syndrome <= 15 /\ syndrome > 8 -> MapRet(syndrome, FALSE)
      [] syndrome = 8  -> MapRet(checkBitp3, TRUE)
      [] syndrome < 8 /\ syndrome > 4 -> MapRet(syndrome, FALSE)
      [] syndrome = 4  -> MapRet(checkBitp2, TRUE)
      [] syndrome = 3  -> MapRet(0, FALSE)
      [] syndrome = 2  -> MapRet(checkBitp1, TRUE)
      [] syndrome = 1  -> MapRet(checkBitp0, TRUE)
      [] OTHER         -> MapPanic("syndrome not mapped")

mapSyndromeToBitPos11(syndrome) ==
    CASE syndrome > 15 -> MapPanic("syndrome too big")
      [] syndrome <= 15 /\ syndrome > 8 -> MapRet(syndrome, FALSE)
      [] syndrome = 8  -> MapRet(checkBitp3, TRUE)
      [] syndrome < 8 /\ syndrome > 4 -> MapRet(syndrome + 1, FALSE)
      [] syndrome = 4  -> MapRet(checkBitp2, TRUE)
      [] syndrome = 3  -> MapRet(0, FALSE)
      [] syndrome = 2  -> MapRet(checkBitp1, TRUE)
      [] syndrome = 1  -> MapRet(checkBitp0, TRUE)
      [] OTHER         -> MapPanic("syndrome not mapped")

\* Correct returning the received word, not 0, with a two-bit error
Correct11KeepsWord(packedCheckable) ==
    LET parity == computeParityInt64(packedCheckable)
        oldCheckbits == getHammingCheckBits11(packedCheckable)
        checkbits == computeHammingCheckBits11(packedCheckable)
        syndrome == ToNat8(Shr(Xor(checkbits, oldCheckbits), 2))
        m == mapSyndromeToBitPos11(syndrome)
    IN  IF parity = 0
        THEN IF syndrome = 0
             THEN CorrectRet(0, packedCheckable, parity, syndrome)
             ELSE CorrectRet(2, packedCheckable, parity, syndrome)
        ELSE IF syndrome = 0
             THEN CorrectRet(1, Xor(packedCheckable, OneShl(globalParityBitp)),
                             parity, syndrome)
             ELSE IF m.panic # "none"
                  THEN CorrectPanic(m.panic, parity, syndrome)
                  ELSE CorrectRet(1, Xor(packedCheckable, OneShl(m.errBitPos)),
                                  parity, syndrome)

Correct11(packedCheckable) ==
    LET parity == computeParityInt64(packedCheckable)
        oldCheckbits == getHammingCheckBits11(packedCheckable)
        checkbits == computeHammingCheckBits11(packedCheckable)
        syndrome == ToNat8(Shr(Xor(checkbits, oldCheckbits), 2))
        m == mapSyndromeToBitPos11(syndrome)
    IN  IF parity = 0
        THEN IF syndrome = 0
             THEN CorrectRet(0, packedCheckable, parity, syndrome)
             ELSE CorrectRet(2, {}, parity, syndrome)
        ELSE IF syndrome = 0
             THEN CorrectRet(1, Xor(packedCheckable, OneShl(globalParityBitp)),
                             parity, syndrome)
             ELSE IF m.panic # "none"
                  THEN CorrectPanic(m.panic, parity, syndrome)
                  ELSE CorrectRet(1, Xor(packedCheckable, OneShl(m.errBitPos)),
                                  parity, syndrome)

\* ------------------------------------------------------------------------
\* hamming57secded: extended Hamming (64, 57, 4)
\* ------------------------------------------------------------------------

getHammingCheckBits57(packedCheckable) ==
    Uint8(packedCheckable \cap Hex(<<15, 12>>))                 \* 0xfc

\* 0xfffffffe00000000
Mask57p5 == Hex(<<15, 15, 15, 15, 15, 15, 15, 14, 0, 0, 0, 0, 0, 0, 0, 0>>)
\* 0xffff0001fffc0000
Mask57p4 == Hex(<<15, 15, 15, 15, 0, 0, 0, 1, 15, 15, 15, 12, 0, 0, 0, 0>>)
\* 0xff00ff01fe03f800
Mask57p3 == Hex(<<15, 15, 0, 0, 15, 15, 0, 1, 15, 14, 0, 3, 15, 8, 0, 0>>)
\* 0xf0f0f0f1e1e3c700
Mask57p2 == Hex(<<15, 0, 15, 0, 15, 0, 15, 1, 14, 1, 14, 3, 12, 7, 0, 0>>)
\* 0xcccccccd999b3601
Mask57p1 == Hex(<<12, 12, 12, 12, 12, 12, 12, 13, 9, 9, 9, 11, 3, 6, 0, 1>>)
\* 0xaaaaaaab5556ad01
Mask57p0 == Hex(<<10, 10, 10, 10, 10, 10, 10, 11, 5, 5, 5, 6, 10, 13, 0, 1>>)

\* computeHammingCheckBits with the tag bit missing from the mask of check
\* bit 1 (0xcccccccd999b3600)
computeHammingCheckBits57TagInP0Only(packedVal) ==
    LET u  == packedVal
        p5 == computeParity(u \cap Mask57p5)
        p4 == computeParity(u \cap Mask57p4)
        p3 == computeParity(u \cap Mask57p3)
        p2 == computeParity(u \cap Mask57p2)
        p1 == computeParity(u \cap (Mask57p1 \ {0}))
        p0 == computeParity(u \cap Mask57p0)
        cbs == BitAt(p5, checkBitp5) \cup BitAt(p4, checkBitp4)
                 \cup BitAt(p3, checkBitp3) \cup BitAt(p2, checkBitp2)
                 \cup BitAt(p1, checkBitp1) \cup BitAt(p0, checkBitp0)
    IN  Uint8(cbs)

computeHammingCheckBits57(packedVal) ==
    LET u  == packedVal
        p5 == computeParity(u \cap Mask57p5)
        p4 == computeParity(u \cap Mask57p4)
        p3 == computeParity(u \cap Mask57p3)
        p2 == computeParity(u \cap Mask57p2)
        p1 == computeParity(u \cap Mask57p1)
        p0 == computeParity(u \cap Mask57p0)
        cbs == BitAt(p5, checkBitp5) \cup BitAt(p4, checkBitp4)
                 \cup BitAt(p3, checkBitp3) \cup BitAt(p2, checkBitp2)
                 \cup BitAt(p1, checkBitp1) \cup BitAt(p0, checkBitp0)
    IN  Uint8(cbs)

\* PackWithCheckBits rotating the value left by 8: the bits leaving bit 63
\* come back in at bits 0..7
PackWithCheckBits57Rotate(inputVal, tagBit) ==
    LET packed == Shl(inputVal, 8) \cup {p - 56 : p \in {q \in inputVal : q >= 56}}
                    \cup TagAnd1(tagBit)
        checkbits == computeHammingCheckBits57(packed)
        v == packed \cup checkbits
        parity == computeParityInt64(v)
    IN  v \cup BitAt(parity, globalParityBitp)

\* PackWithCheckBits leaving the global parity bit 0
PackWithCheckBits57NoParity(inputVal, tagBit) ==
    LET packed == Shl(inputVal, 8) \cup TagAnd1(tagBit)
        checkbits == computeHammingCheckBits57(packed)
        v == packed \cup checkbits
    IN  v

PackWithCheckBits57(inputVal, tagBit) ==
    LET packed == Shl(inputVal, 8) \cup TagAnd1(tagBit)
        checkbits == computeHammingCheckBits57(packed)
        v == packed \cup checkbits
        parity == computeParityInt64(v)
    IN  v \cup BitAt(parity, globalParityBitp)

\* mapSyndromeToBitPos without the guard against syndromes above 63
mapSyndromeToBitPos57NoUpperGuard(syndrome) ==
    CASE syndrome > 32 -> MapRet(syndrome, FALSE)
      [] syndrome = 32 -> MapRet(checkBitp5, TRUE)
      [] syndrome < 32 /\ syndrome > 16 -> MapRet(syndrome + 1, FALSE)
      [] syndrome = 16 -> MapRet(checkBitp4, TRUE)
      [] syndrome < 16 /\ syndrome > 8 -> MapRet(syndrome + 2, FALSE)
      [] syndrome = 8  -> MapRet(checkBitp3, TRUE)
      [] syndrome < 8 /\ syndrome > 4 -> MapRet(syndrome + 3, FALSE)
      [] syndrome = 4  -> MapRet(checkBitp2, TRUE)
      [] syndrome = 3  -> MapRet(0, FALSE)
      [] syndrome = 2  -> MapRet(checkBitp1, TRUE)
      [] syndrome = 1  -> MapRet(checkBitp0, TRUE)
      [] OTHER         -> MapPanic("syndrome not mapped")

\* mapSyndromeToBitPos skipping two positions, not one, for syndromes 17..31
mapSyndromeToBitPos57Skip2(syndrome) ==
    CASE syndrome > 63 -> MapPanic("syndrome too big")
      [] syndrome <= 63 /\ syndrome > 32 -> MapRet(syndrome, FALSE)
      [] syndrome = 32 -> MapRet(checkBitp5, TRUE)
      [] syndrome < 32 /\ syndrome > 16 -> MapRet(syndrome + 2, FALSE)
      [] syndrome = 16 -> MapRet(checkBitp4, TRUE)
      [] syndrome < 16 /\ syndrome > 8 -> MapRet(syndrome + 2, FALSE)
      [] syndrome = 8  -> MapRet(checkBitp3, TRUE)
      [] syndrome < 8 /\ syndrome > 4 -> MapRet(syndrome + 3, FALSE)
      [] syndrome = 4  -> MapRet(checkBitp2, TRUE)
      [] syndrome = 3  -> MapRet(0, FALSE)
      [] syndrome = 2  -> MapRet(checkBitp1, TRUE)
      [] syndrome = 1  -> MapRet(checkBitp0, TRUE)
      [] OTHER         -> MapPanic("syndrome not mapped")

mapSyndromeToBitPos57(syndrome) ==
    CASE syndrome > 63 -> MapPanic("syndrome too big")
      [] syndrome <= 63 /\ syndrome > 32 -> MapRet(syndrome, FALSE)
      [] syndrome = 32 -> MapRet(checkBitp5, TRUE)
      [] syndrome < 32 /\ syndrome > 16 -> MapRet(syndrome + 1, FALSE)
      [] syndrome = 16 -> MapRet(checkBitp4, TRUE)
      [] syndrome < 16 /\ syndrome > 8 -> MapRet(syndrome + 2, FALSE)
      [] syndrome = 8  -> MapRet(checkBitp3, TRUE)
      [] syndrome < 8 /\ syndrome > 4 -> MapRet(syndrome + 3, FALSE)
      [] syndrome = 4  -> MapRet(checkBitp2, TRUE)
      [] syndrome = 3  -> MapRet(0, FALSE)
      [] syndrome = 2  -> MapRet(checkBitp1, TRUE)
      [] syndrome = 1  -> MapRet(checkBitp0, TRUE)
      [] OTHER         -> MapPanic("syndrome not mapped")

Correct57(packedCheckable) ==
    LET parity == computeParityInt64(packedCheckable)
        oldCheckbits == getHammingCheckBits57(packedCheckable)
        checkbits == computeHammingCheckBits57(packedCheckable)
        syndrome == ToNat8(Shr(Xor(checkbits, oldCheckbits), 2))
        m == mapSyndromeToBitPos57(syndrome)
    IN  IF parity = 0
        THEN IF syndrome = 0
             THEN CorrectRet(0, packedCheckable, parity, syndrome)
             ELSE CorrectRet(2, {}, parity, syndrome)
        ELSE IF syndrome = 0
             THEN CorrectRet(1, Xor(packedCheckable, OneShl(globalParityBitp)),
                             parity, syndrome)
             ELSE IF m.panic # "none"
                  THEN CorrectPanic(m.panic, parity, syndrome)
                  ELSE CorrectRet(1, Xor(packedCheckable, OneShl(m.errBitPos)),
                                  parity, syndrome)

\* ------------------------------------------------------------------------
\* The three variants behind one name
\* ------------------------------------------------------------------------

Variants == {"hamming4", "hamming11", "hamming57"}

\* total codeword bits n of the (n, k, 4) code
CodeBits(vt) ==
    CASE vt = "hamming4" -> 8 [] vt = "hamming11" -> 16 [] vt = "hamming57" -> 64

\* number r of Hamming check bits: checkBitp0 .. checkBitp(r-1)
CheckCount(vt) ==
    CASE vt = "hamming4" -> 3 [] vt = "hamming11" -> 4 [] vt = "hamming57" -> 6

\* position of the lowest Value bit: the shift count in PackWithCheckBits
ValueShift(vt) ==
    CASE vt = "hamming4" -> 5 [] vt = "hamming11" -> 6 [] vt = "hamming57" -> 8

\* width of the Value field: "the least significant 3 / 10 / 56 bits"
ValueWidth(vt) == CodeBits(vt) - ValueShift(vt)

PackWithCheckBits(vt, inputVal, tagBit) ==
    CASE vt = "hamming4"  -> PackWithCheckBits4(inputVal, tagBit)
      [] vt = "hamming11" -> PackWithCheckBits11(inputVal, tagBit)
      [] vt = "hamming57" -> PackWithCheckBits57(inputVal, tagBit)

Correct(vt, packedCheckable) ==
    CASE vt = "hamming4"  -> Correct4(packedCheckable)
      [] vt = "hamming11" -> Correct11(packedCheckable)
      [] vt = "hamming57" -> Correct57(packedCheckable)

computeHammingCheckBits(vt, packedVal) ==
    CASE vt = "hamming4"  -> computeHammingCheckBits4(packedVal)
      [] vt = "hamming11" -> computeHammingCheckBits11(packedVal)
      [] vt = "hamming57" -> computeHammingCheckBits57(packedVal)

getHammingCheckBits(vt, packedCheckable) ==
    CASE vt = "hamming4"  -> getHammingCheckBits4(packedCheckable)
      [] vt = "hamming11" -> getHammingCheckBits11(packedCheckable)
      [] vt = "hamming57" -> getHammingCheckBits57(packedCheckable)

mapSyndromeToBitPos(vt, syndrome) ==
    CASE vt = "hamming4"  -> mapSyndromeToBitPos4(syndrome)
      [] vt = "hamming11" -> mapSyndromeToBitPos11(syndrome)
      [] vt = "hamming57" -> mapSyndromeToBitPos57(syndrome)

\* ------------------------------------------------------------------------
\* Inputs
\* ------------------------------------------------------------------------

\* the 64-bit variant's in-range values are sampled: 0..MaxLow57, every
\* single-bit value, and the all-ones value 2^56 - 1
MaxLow57 == 7

\* out-of-range values are one bit above the Value field on top of a low
\* value 0..MaxLowWide, and -1 (all 64 bits set)
MaxLowWide == 1

\* tag arguments range over -MaxTag..MaxTag
MaxTag == 2

InRange(vt, inputVal) == inputVal \subseteq 0..(ValueWidth(vt) - 1)

InRangeVals(vt) ==
    CASE vt = "hamming4"  -> {FromNat(k) : k \in 0..7}
      [] vt = "hamming11" -> {FromNat(k) : k \in 0..1023}
      [] vt = "hamming57" -> {FromNat(k) : k \in 0..MaxLow57}
                               \cup {{i} : i \in 0..55} \cup {0..55}

WideVals(vt) ==
    {FromNat(k) \cup {h} : k \in 0..MaxLowWide, h \in ValueWidth(vt)..63}
        \cup {WordBits}

TagBits == (0 - MaxTag)..MaxTag

\* arbitrary integers handed to Correct: every pattern of the low byte (tag,
\* parity and all check bits of every variant) under a few high parts
RawHigh == {{}, {8}, {15, 16}, {63}, 8..63}

RawWords == {low \cup hi : low \in SUBSET ByteBits, hi \in RawHigh}

NoResult == CorrectRet(-1, {}, -1, -1)

\* ------------------------------------------------------------------------
\* State: one codeword on its way from PackWithCheckBits to Correct
\* ------------------------------------------------------------------------

VARIABLES
    variant,          \* which package is in use
    inputVal,         \* argument of PackWithCheckBits
    tagBit,           \* argument of PackWithCheckBits
    packedCheckable,  \* the stored / transmitted word, argument of Correct
    source,           \* "none", "pack" (word made by Pack) or "raw"
    flipped,          \* bit positions corrupted since Pack
    pc,               \* "new", "stored", "corrected", "recorrected"
    res,              \* what the last Correct returned
    call,             \* one direct call of a function: arguments and result
    report,           \* the sqlschema.OpReport the schema operations work on
    sd,               \* the SQLDef that CreateSQLStore returned
    run               \* one run of dbMain: requested actions, position, calls made

\* the codeword's way from PackWithCheckBits to Correct
codecVars ==
    <<variant, inputVal, tagBit, packedCheckable, source, flipped, pc, res>>

\* what the codeword's way leaves alone
notCodecVars == <<call, report, sd, run>>

vars == <<codecVars, notCodecVars>>

\* no function is being called
NoCall == [fn |-> "none"]

\* dbMain is not running
NoRun == [pc |-> "none"]

\* no SQLDef: the nil interface value
NoSQLDef == [prefix |-> "nil"]

\* the zero value of sqlschema.OpReport
ZeroReport ==
    [Elements |-> <<>>, Conf |-> <<>>, LastOp |-> "",
     NumExpected |-> 0, NumFound |-> 0, NumMatched |-> 0, NumMismatched |-> 0,
     NumMissing |-> 0, NumCreated |-> 0, NumDropped |-> 0, NumFailed |-> 0]

InitNew ==
    /\ variant \in Variants
    /\ inputVal \in InRangeVals(variant) \cup WideVals(variant)
    /\ tagBit \in TagBits
    /\ packedCheckable = {}
    /\ source = "none"
    /\ flipped = {}
    /\ pc = "new"
    /\ res = NoResult
    /\ call = NoCall
    /\ report = ZeroReport
    /\ sd = NoSQLDef
    /\ run = NoRun

InitRaw ==
    /\ variant \in Variants
    /\ inputVal = {}
    /\ tagBit = 0
    /\ packedCheckable \in RawWords
    /\ source = "raw"
    /\ flipped = {}
    /\ pc = "stored"
    /\ res = NoResult
    /\ call = NoCall
    /\ report = ZeroReport
    /\ sd = NoSQLDef
    /\ run = NoRun

Init == InitNew \/ InitRaw

\* the caller packs (inputVal, tagBit)
Pack ==
    /\ pc = "new"
    /\ packedCheckable' = PackWithCheckBits(variant, inputVal, tagBit)
    /\ source' = "pack"
    /\ pc' = "stored"
    /\ UNCHANGED <<variant, inputVal, tagBit, flipped, res>>
    /\ UNCHANGED notCodecVars

\* storage or transmission flips one bit of the codeword, at most two in all;
\* errors are injected into the codewords of in-range values with tag 0 or 1
FlipBit(p) ==
    /\ pc = "stored"
    /\ source = "pack"
    /\ InRange(variant, inputVal)
    /\ tagBit \in {0, 1}
    /\ p \notin flipped
    /\ Cardinality(flipped) < 2
    /\ packedCheckable' = Xor(packedCheckable, {p})
    /\ flipped' = flipped \cup {p}
    /\ UNCHANGED <<variant, inputVal, tagBit, source, pc, res>>
    /\ UNCHANGED notCodecVars

\* the consumer calls Correct on the word as it stands
DoCorrect ==
    /\ pc = "stored"
    /\ res' = Correct(variant, packedCheckable)
    /\ pc' = "corrected"
    /\ UNCHANGED <<variant, inputVal, tagBit, packedCheckable, source, flipped>>
    /\ UNCHANGED notCodecVars

\* the consumer calls Correct again on the word a 0- or 1-error Correct
\* returned
CorrectAgain ==
    /\ pc \in {"corrected", "recorrected"}
    /\ res.panic = "none"
    /\ res.nBitErrors \in {0, 1}
    /\ packedCheckable' = res.corrected
    /\ res' = Correct(variant, res.corrected)
    /\ pc' = "recorrected"
    /\ UNCHANGED <<variant, inputVal, tagBit, source, flipped>>
    /\ UNCHANGED notCodecVars

Next ==
    \/ Pack
    \/ \E p \in 0..(CodeBits(variant) - 1) : FlipBit(p)
    \/ DoCorrect
    \/ CorrectAgain

Spec == Init /\ [][Next]_vars

TypeOK ==
    /\ variant \in Variants
    /\ packedCheckable \subseteq WordBits
    /\ pc \in {"new", "stored", "corrected", "recorrected"}

\* ------------------------------------------------------------------------
\* Properties
\* ------------------------------------------------------------------------

\* the codeword PackWithCheckBits made for this state's inputs
Codeword == PackWithCheckBits(variant, inputVal, tagBit)

\* a word made by Pack is in storage, uncorrupted
FreshlyPacked == pc = "stored" /\ source = "pack" /\ flipped = {}

\* Correct has run once on a codeword of an in-range value and a tag in
\* {0, 1} that had exactly k bits flipped
CorrectedAfterFlips(k) ==
    /\ pc = "corrected"
    /\ source = "pack"
    /\ InRange(variant, inputVal)
    /\ tagBit \in {0, 1}
    /\ Cardinality(flipped) = k

\* Claim C1: every single-bit flip at a position 0..n-1 of the codeword of an
\* in-range value is corrected: Correct returns (1, the original codeword).
SingleBitCorrected ==
    CorrectedAfterFlips(1) =>
        /\ res.panic = "none"
        /\ res.nBitErrors = 1
        /\ res.corrected = Codeword

SingleBitCorrectedWitness ==
    /\ CorrectedAfterFlips(1)
    /\ variant = "hamming57"
    /\ flipped = {63}
    /\ packedCheckable # Codeword
    /\ res.nBitErrors = 1
    /\ res.corrected = Xor(packedCheckable, flipped)

\* Claim C2: every flip of two distinct positions of 0..n-1 (value, tag,
\* check or global-parity bits) of the codeword of an in-range value makes
\* Correct return exactly (2, 0).
DoubleBitDetected ==
    CorrectedAfterFlips(2) =>
        /\ res.panic = "none"
        /\ res.nBitErrors = 2
        /\ res.corrected = {}

DoubleBitDetectedWitness ==
    /\ CorrectedAfterFlips(2)
    /\ variant = "hamming11"
    /\ flipped = {globalParityBitp, checkBitp3}
    /\ inputVal # {}
    /\ res.nBitErrors = 2
    /\ res.corrected = {}

\* Claim C3: Correct applied to the unchanged codeword of an in-range value
\* and a tag bit returns (0, that codeword).
ZeroErrorRoundTrip ==
    CorrectedAfterFlips(0) =>
        /\ res.panic = "none"
        /\ res.nBitErrors = 0
        /\ res.corrected = Codeword
        /\ res.corrected = packedCheckable

ZeroErrorRoundTripWitness ==
    /\ CorrectedAfterFlips(0)
    /\ variant = "hamming57"
    /\ inputVal = 0..55
    /\ tagBit = 1
    /\ res.nBitErrors = 0
    /\ res.corrected = packedCheckable

\* the Check-bit and Global-parity fields: bit positions 1 .. r+1
ReservedBits(vt) == 1..(CheckCount(vt) + 1)

\* in-range values one Value bit away from inputVal
ValueNeighbours ==
    {Xor(inputVal, {i}) : i \in 0..(ValueWidth(variant) - 1)}

PackedParityEven ==
    FreshlyPacked => Cardinality(packedCheckable) % 2 = 0

PackedParityEvenWitness ==
    /\ FreshlyPacked
    /\ variant = "hamming11"
    /\ ~InRange(variant, inputVal)
    /\ globalParityBitp \in packedCheckable
    /\ Cardinality(packedCheckable) % 2 = 0

\* Claim C6: flipping only bit 0 of a codeword gives syndrome 3 in Correct
\* and is corrected back to the codeword; a single flip at any position of
\* 1..n-1 never gives syndrome 3.
TagBitIsolation ==
    CorrectedAfterFlips(1) =>
        /\ (flipped = {0}) <=> (res.syndrome = 3)
        /\ flipped = {0} =>
             res.nBitErrors = 1 /\ res.corrected = Codeword

TagBitIsolationWitness ==
    /\ CorrectedAfterFlips(1)
    /\ flipped = {0}
    /\ variant = "hamming4"
    /\ inputVal = 0..2
    /\ res.syndrome = 3
    /\ res.corrected = Codeword

\* Claim C7: Correct returns normally on every word: the error count is 0, 1
\* or 2 and neither panic of mapSyndromeToBitPos is reached.
CorrectTotal ==
    pc \in {"corrected", "recorrected"} =>
        /\ res.panic = "none"
        /\ res.nBitErrors \in {0, 1, 2}
        /\ res.syndrome \in 0..(2^CheckCount(variant) - 1)

CorrectTotalWitness ==
    /\ pc = "corrected"
    /\ source = "raw"
    /\ variant = "hamming57"
    /\ packedCheckable \cap (8..63) = {15, 16}
    /\ res.parity = 1
    /\ res.syndrome = 63
    /\ res.nBitErrors = 1

\* the syndrome of a word, from its stored and recomputed check bits
SyndromeOf(vt, x) ==
    ToNat8(Shr(Xor(computeHammingCheckBits(vt, x), getHammingCheckBits(vt, x)), 2))

\* Claim C8: the decision table of Correct on any word x, by the parity of
\* x's one-bits and the syndrome: (0,0) gives (0, x); (0, s # 0) gives
\* (2, 0); (1, 0) gives (1, x with bit 1 flipped); (1, s # 0) gives (1, x
\* with bit mapSyndromeToBitPos(s) flipped).  A count-1 result differs from x
\* in exactly one bit, a count-2 result is 0.
DecisionTable ==
    pc \in {"corrected", "recorrected"} =>
        LET x == packedCheckable
            parity == Cardinality(x) % 2
            syndrome == SyndromeOf(variant, x)
            pos == mapSyndromeToBitPos(variant, syndrome).errBitPos
        IN  /\ res.panic = "none"
            /\ (parity = 0 /\ syndrome = 0) =>
                 res.nBitErrors = 0 /\ res.corrected = x
            /\ (parity = 0 /\ syndrome # 0) =>
                 res.nBitErrors = 2 /\ res.corrected = {}
            /\ (parity = 1 /\ syndrome = 0) =>
                 res.nBitErrors = 1 /\ res.corrected = Xor(x, {1})
            /\ (parity = 1 /\ syndrome # 0) =>
                 res.nBitErrors = 1 /\ res.corrected = Xor(x, {pos})
            /\ res.nBitErrors = 1 => Cardinality(Xor(x, res.corrected)) = 1
            /\ res.nBitErrors = 2 => res.corrected = {}

DecisionTableWitness ==
    /\ pc = "corrected"
    /\ source = "raw"
    /\ variant = "hamming11"
    /\ Cardinality(packedCheckable) % 2 = 1
    /\ SyndromeOf(variant, packedCheckable) = 0
    /\ res.nBitErrors = 1
    /\ res.corrected = Xor(packedCheckable, {1})

\* Claim C9: the word a 0- or 1-error Correct returned is accepted by
\* Correct as error-free, however often Correct is applied to it.
CorrectIdempotent ==
    pc = "recorrected" =>
        /\ res.panic = "none"
        /\ res.nBitErrors = 0
        /\ res.corrected = packedCheckable

CorrectIdempotentWitness ==
    /\ pc = "recorrected"
    /\ source = "raw"
    /\ variant = "hamming57"
    /\ 63 \in packedCheckable
    /\ res.syndrome = 0
    /\ res.nBitErrors = 0
    /\ res.corrected = packedCheckable

\* bits of inputVal above the Value-field width
HighInputBits == inputVal \ (0..(ValueWidth(variant) - 1))

\* inputVal with the bits above the Value-field width cleared
LowInputVal == inputVal \cap (0..(ValueWidth(variant) - 1))

\* Claim C10 as stated: in every variant the bits of inputVal above the
\* Value-field width are carried into the codeword, so a value with such
\* bits and the value without them give different codewords.
HighBitsCarried ==
    (FreshlyPacked /\ HighInputBits # {}) =>
        packedCheckable # PackWithCheckBits(variant, LowInputVal, tagBit)

\* Claim C10, amended: the encoder does not mask inputVal, it shifts it left
\* by r+2 in 64 bits: the bits of inputVal at positions width..(63-(r+2))
\* appear in the codeword at positions n..63 and change it, the bits at
\* positions 64-(r+2)..63 are shifted out and leave the codeword unchanged
\* (in the 64-bit variant that is every bit above the Value field).
HighBitsShifted ==
    FreshlyPacked =>
        LET carried == {p \in HighInputBits : p + ValueShift(variant) <= 63}
        IN  /\ packedCheckable \ (0..(CodeBits(variant) - 1))
                 = {p + ValueShift(variant) : p \in carried}
            /\ (carried # {}) <=>
                 (packedCheckable # PackWithCheckBits(variant, LowInputVal, tagBit))

HighBitsShiftedWitness ==
    /\ FreshlyPacked
    /\ variant = "hamming11"
    /\ 10 \in inputVal
    /\ 63 \notin inputVal
    /\ 16 \in packedCheckable

\* the codeword of inputVal with the bits above the Value field cleared
LowCodeword == PackWithCheckBits(variant, LowInputVal, tagBit)

\* the bits of inputVal above the Value field that the shift keeps in 64 bits
CarriedBits == {p \in HighInputBits : p + ValueShift(variant) <= 63}

\* Tag, Global-parity and Check fields: bit positions 0 .. r+1
LowFields(vt) == 0..(CheckCount(vt) + 1)

\* Claim C11 as stated: a value wider than the Value field changes the
\* Tag / Parity / Check fields (bits 0..r+1) of the codeword.
ExcessBitsBleedLow ==
    (FreshlyPacked /\ HighInputBits # {}) =>
        packedCheckable \cap LowFields(variant)
            # LowCodeword \cap LowFields(variant)

\* Claim C11, amended: the left shift moves excess bits of inputVal upward
\* only: the Tag, Check and Value fields of the codeword are those of the
\* value cut to the field width, and the Global-parity bit differs from that
\* codeword's exactly when an odd number of excess bits stays in bits n..63.
ExcessBitsStayHigh ==
    (FreshlyPacked /\ HighInputBits # {}) =>
        LET kept == (0..(CodeBits(variant) - 1)) \ {globalParityBitp}
        IN  /\ packedCheckable \cap kept = LowCodeword \cap kept
            /\ ((globalParityBitp \in packedCheckable)
                  # (globalParityBitp \in LowCodeword))
                 <=> (Cardinality(CarriedBits) % 2 = 1)

ExcessBitsStayHighWitness ==
    /\ FreshlyPacked
    /\ variant = "hamming4"
    /\ inputVal = {0, 3}
    /\ tagBit = 1
    /\ 8 \in packedCheckable
    /\ packedCheckable \cap {0, 2, 3, 4} = LowCodeword \cap {0, 2, 3, 4}

\* Claim C20 as stated: the number of one-bits of a codeword from
\* PackWithCheckBits, modulo 2, equals its global-parity bit (bit 1).
ParityBitIsTotalParity ==
    FreshlyPacked =>
        Cardinality(packedCheckable) % 2
            = (IF globalParityBitp \in packedCheckable THEN 1 ELSE 0)

\* Claim C20, amended: the number of one-bits of the codeword outside the
\* global-parity bit, modulo 2, equals the global-parity bit, so that the
\* whole codeword has an even number of one-bits.
ParityBitIsRestParity ==
    FreshlyPacked =>
        Cardinality(packedCheckable \ {globalParityBitp}) % 2
            = (IF globalParityBitp \in packedCheckable THEN 1 ELSE 0)

ParityBitIsRestParityWitness ==
    /\ FreshlyPacked
    /\ variant = "hamming4"
    /\ inputVal = {}
    /\ tagBit = 1
    /\ packedCheckable = {0, 1, 2, 3}

\* ------------------------------------------------------------------------
\* Direct calls of mapSyndromeToBitPos and computeHammingCheckBits
\* ------------------------------------------------------------------------

\* the largest uint8, the type of the syndrome parameter
MaxUint8 == 255

\* words given to computeHammingCheckBits: some tag, parity, check and value
\* bits under the high parts of RawHigh
ProbeWords == {low \cup hi : low \in SUBSET {0, 1, 4, 7}, hi \in RawHigh}

\* the codec is not in use
CodecIdle ==
    /\ variant = "hamming4"
    /\ inputVal = {}
    /\ tagBit = 0
    /\ packedCheckable = {}
    /\ source = "none"
    /\ flipped = {}
    /\ pc = "idle"
    /\ res = NoResult

\* no schema operation is in use
SchemaIdle == report = ZeroReport

\* mapSyndromeToBitPos is about to be called with any uint8
InitMapCall ==
    /\ CodecIdle
    /\ SchemaIdle
    /\ sd = NoSQLDef
    /\ run = NoRun
    /\ \E vt \in Variants : \E s \in 0..MaxUint8 :
         call = [fn |-> "mapSyndromeToBitPos", vt |-> vt, syndrome |-> s,
                 done |-> FALSE, out |-> MapRet(0, FALSE)]

\* computeHammingCheckBits is about to be called on a word x and on x with
\* the bits of delta flipped; delta is any set of parity and check bit
\* positions, or the tag bit
InitCheckBitsCall ==
    /\ CodecIdle
    /\ SchemaIdle
    /\ sd = NoSQLDef
    /\ run = NoRun
    /\ \E vt \in Variants : \E x \in ProbeWords :
         \E delta \in (SUBSET (1..(CheckCount(vt) + 1))) \cup {{0}} :
           call = [fn |-> "computeHammingCheckBits", vt |-> vt, x |-> x,
                   delta |-> delta, done |-> FALSE,
                   out |-> [ofX |-> {}, ofFlipped |-> {}]]

InitCalls == InitMapCall \/ InitCheckBitsCall

CallMapSyndromeToBitPos ==
    /\ call.fn = "mapSyndromeToBitPos"
    /\ ~call.done
    /\ call' = [call EXCEPT !.done = TRUE,
                            !.out = mapSyndromeToBitPos(call.vt, call.syndrome)]
    /\ UNCHANGED <<codecVars, report, sd, run>>

CallComputeHammingCheckBits ==
    /\ call.fn = "computeHammingCheckBits"
    /\ ~call.done
    /\ call' = [call EXCEPT !.done = TRUE,
                 !.out = [ofX |-> computeHammingCheckBits(call.vt, call.x),
                          ofFlipped |-> computeHammingCheckBits(call.vt,
                                            Xor(call.x, call.delta))]]
    /\ UNCHANGED <<codecVars, report, sd, run>>

NextCalls == CallMapSyndromeToBitPos \/ CallComputeHammingCheckBits

SpecCalls == InitCalls /\ [][NextCalls]_vars

\* mapSyndromeToBitPos has returned or panicked
MapCalled == call.fn = "mapSyndromeToBitPos" /\ call.done

\* the syndromes of the check bits: 1, 2, ..., 2^(r-1)
CheckSyndromes(vt) == {2^k : k \in 0..(CheckCount(vt) - 1)}

\* the syndromes of Value bits
ValueSyndromes(vt) == (5..(2^CheckCount(vt) - 1)) \ CheckSyndromes(vt)

\* Claim C17: mapSyndromeToBitPos maps syndrome 3 to position 0 (no check
\* bit), a power of two 2^k below 2^r to check-bit position k+2, every other
\* syndrome of 5..2^r-1 to a Value position r+2..n-1, panics on 0 and above
\* 2^r-1, and is a bijection from 1..2^r-1 onto the positions 0..n-1 but 1.
MapSyndromeTable ==
    MapCalled =>
        LET vt == call.vt
            s == call.syndrome
            o == call.out
            r == CheckCount(vt)
            n == CodeBits(vt)
            mapped == 1..(2^r - 1)
        IN  /\ s = 3 => o = MapRet(0, FALSE)
            /\ \A k \in 0..(r - 1) : s = 2^k => o = MapRet(k + 2, TRUE)
            /\ s \in ValueSyndromes(vt) =>
                 /\ o.panic = "none"
                 /\ ~o.isCheckBit
                 /\ o.errBitPos \in (r + 2)..(n - 1)
            /\ (s = 0 \/ s > 2^r - 1) <=> (o.panic # "none")
            /\ s \in mapped =>
                 /\ o.errBitPos \in (0..(n - 1)) \ {globalParityBitp}
                 /\ \A s2 \in mapped \ {s} :
                      mapSyndromeToBitPos(vt, s2).errBitPos # o.errBitPos
            /\ \A p \in (0..(n - 1)) \ {globalParityBitp} :
                 \E s2 \in mapped : mapSyndromeToBitPos(vt, s2).errBitPos = p

MapSyndromeTableWitness ==
    /\ MapCalled
    /\ call.vt = "hamming57"
    /\ call.syndrome = 32
    /\ call.out = MapRet(checkBitp5, TRUE)

\* Claim C18 as stated: for a syndrome s that is neither 3 nor a power of
\* two the position is s plus 1 for each power-of-two threshold s has passed.
MapAddsThresholdsPassed ==
    (MapCalled /\ call.syndrome \in ValueSyndromes(call.vt)) =>
        call.out.errBitPos = call.syndrome
            + Cardinality({t \in CheckSyndromes(call.vt) : t < call.syndrome})

\* Claim C18, amended: the position is s plus 1 for each power-of-two
\* threshold below 2^r that s has not reached yet (each check-bit syndrome
\* above s): check bits sit below the Value field, so the highest syndromes
\* map to themselves.
MapAddsThresholdsAbove ==
    (MapCalled /\ call.syndrome \in ValueSyndromes(call.vt)) =>
        /\ call.out.panic = "none"
        /\ call.out.errBitPos = call.syndrome
             + Cardinality({t \in CheckSyndromes(call.vt) : t > call.syndrome})

MapAddsThresholdsAboveWitness ==
    /\ MapCalled
    /\ call.vt = "hamming57"
    /\ call.syndrome = 9
    /\ call.out.errBitPos = 11

\* computeHammingCheckBits has returned for x and for x with delta flipped
CheckBitsCalled == call.fn = "computeHammingCheckBits" /\ call.done

\* Claim C19: computeHammingCheckBits gives the same check bits for two words
\* that differ only in positions 1..r+1, and the tag bit (position 0) enters
\* check bits 0 and 1 only.
CheckBitsIgnoreReserved ==
    CheckBitsCalled =>
        /\ call.delta \subseteq 1..(CheckCount(call.vt) + 1) =>
             call.out.ofX = call.out.ofFlipped
        /\ call.delta = {0} =>
             Xor(call.out.ofX, call.out.ofFlipped) = {checkBitp0, checkBitp1}

CheckBitsIgnoreReservedWitness ==
    /\ CheckBitsCalled
    /\ call.vt = "hamming57"
    /\ call.delta = 1..7
    /\ call.x = {0, 4} \cup (8..63)
    /\ call.out.ofX # {}
    /\ call.out.ofX = call.out.ofFlipped

\* ---------------------------------------------------------------------
\* sqlschema: mass creation and dropping of schema elements
\* ---------------------------------------------------------------------

\* how many schema elements the checked element lists hold
MaxElems == 3

ElemStatusCodes ==
    {"UnknownES", "InitializedES", "MissingES", "FoundES", "MatchedES",
     "MismatchedES", "CreatedES", "CreateFailedES", "DroppedES", "DropFailedES"}

\* the status codes that the operations of the package leave in a report
LeftStatusCodes == ElemStatusCodes \ {"UnknownES", "FoundES"}

NilErr == [failed |-> "nil"]

\* ElemTypeCode.SQLKeyword: panics for NoElem and for every unlisted code
SQLKeyword(typeCode) ==
    CASE typeCode = "NoElem" -> "panic"
      [] typeCode = "TableElem" -> "TABLE"
      [] typeCode = "ViewElem" -> "VIEW"
      [] typeCode = "IndexElem" -> "INDEX"
      [] OTHER -> "panic"

\* the element definitions of a store: tables first, one view last, as
\* elementTemplates lists them (indices here are the Go indices plus one)
ElementDefs(n) ==
    [i \in 1..n |->
        [ElemType |-> IF i = n THEN "ViewElem" ELSE "TableElem",
         BaseName |-> i, Name |-> i]]

InitOpReportElements(r, defs) ==
    [r EXCEPT !.NumExpected = Len(defs),
              !.Elements = [i \in 1..Len(defs) |->
                  [ElemType |-> defs[i].ElemType, BaseName |-> defs[i].BaseName,
                   Name |-> defs[i].Name, Status |-> "InitializedES",
                   ProblemDetail |-> "", Err |-> NilErr]]]

\* CreateElements with no return at the first failure
CreateElementsKeepsGoing(r, defs, onlyStatus, failing) ==
    LET start == [r |-> [r EXCEPT !.NumCreated = 0, !.NumFailed = 0,
                                  !.LastOp = "create"],
                  err |-> NilErr, log |-> <<>>, done |-> FALSE, panic |-> "none"]
        step[i \in 0..Len(defs)] ==
            IF i = 0 THEN start
            ELSE LET prev == step[i - 1]
                     statusRec == prev.r.Elements[i]
                     elem == defs[i]
                 IN  IF prev.done THEN prev
                     ELSE IF statusRec.ElemType # elem.ElemType
                         THEN [prev EXCEPT !.done = TRUE, !.panic = "different ElemType"]
                     ELSE IF statusRec.BaseName # elem.BaseName
                         THEN [prev EXCEPT !.done = TRUE, !.panic = "different BaseName"]
                     ELSE IF statusRec.Name # elem.Name
                         THEN [prev EXCEPT !.done = TRUE, !.panic = "different Name"]
                     ELSE IF statusRec.Status # onlyStatus THEN prev
                     ELSE IF i \notin failing
                         THEN [prev EXCEPT
                                 !.r.Elements[i].Err = NilErr,
                                 !.r.Elements[i].Status = "CreatedES",
                                 !.r.NumCreated = @ + 1,
                                 !.log = Append(@, [stmt |-> "CREATE", elem |-> i, ok |-> TRUE])]
                         ELSE [prev EXCEPT
                                 !.r.Elements[i].Err = [failed |-> "create", elem |-> i],
                                 !.r.Elements[i].Status = "CreateFailedES",
                                 !.r.NumFailed = @ + 1,
                                 !.log = Append(@, [stmt |-> "CREATE", elem |-> i, ok |-> FALSE]),
                                 !.err = [failed |-> "create", elem |-> i]]
    IN  step[Len(defs)]

\* CreateElements(db, r, defs, onlyStatus); failing is the set of elements
\* whose CREATE statement the database rejects.  The result holds the
\* report as left in *r, the returned error, and the statements executed.
CreateElements(r, defs, onlyStatus, failing) ==
    LET start == [r |-> [r EXCEPT !.NumCreated = 0, !.NumFailed = 0,
                                  !.LastOp = "create"],
                  err |-> NilErr, log |-> <<>>, done |-> FALSE, panic |-> "none"]
        step[i \in 0..Len(defs)] ==
            IF i = 0 THEN start
            ELSE LET prev == step[i - 1]
                     statusRec == prev.r.Elements[i]
                     elem == defs[i]
                 IN  IF prev.done THEN prev
                     ELSE IF statusRec.ElemType # elem.ElemType
                         THEN [prev EXCEPT !.done = TRUE, !.panic = "different ElemType"]
                     ELSE IF statusRec.BaseName # elem.BaseName
                         THEN [prev EXCEPT !.done = TRUE, !.panic = "different BaseName"]
                     ELSE IF statusRec.Name # elem.Name
                         THEN [prev EXCEPT !.done = TRUE, !.panic = "different Name"]
                     ELSE IF statusRec.Status # onlyStatus THEN prev
                     ELSE IF i \notin failing
                         THEN [prev EXCEPT
                                 !.r.Elements[i].Err = NilErr,
                                 !.r.Elements[i].Status = "CreatedES",
                                 !.r.NumCreated = @ + 1,
                                 !.log = Append(@, [stmt |-> "CREATE", elem |-> i, ok |-> TRUE])]
                         ELSE [prev EXCEPT
                                 !.r.Elements[i].Err = [failed |-> "create", elem |-> i],
                                 !.r.Elements[i].Status = "CreateFailedES",
                                 !.r.NumFailed = @ + 1,
                                 !.log = Append(@, [stmt |-> "CREATE", elem |-> i, ok |-> FALSE]),
                                 !.err = [failed |-> "create", elem |-> i],
                                 !.done = TRUE]
    IN  step[Len(defs)]

\* DropReportedElements walking the elements from the first to the last
DropReportedElementsForward(r, tryAll, failing) ==
    LET n == Len(r.Elements)
        start == [r |-> [r EXCEPT !.NumDropped = 0, !.NumFailed = 0,
                                  !.LastOp = "drop"],
                  err |-> NilErr, log |-> <<>>, done |-> FALSE, panic |-> "none"]
        step[k \in 0..n] ==
            IF k = 0 THEN start
            ELSE LET prev == step[k - 1]
                     i == k
                     statusRec == prev.r.Elements[i]
                 IN  IF prev.done THEN prev
                     ELSE IF SQLKeyword(statusRec.ElemType) = "panic"
                         THEN [prev EXCEPT !.done = TRUE, !.panic = "SQLKeyword"]
                     ELSE IF i \notin failing
                         THEN [prev EXCEPT
                                 !.r.Elements[i].Err = NilErr,
                                 !.r.Elements[i].Status = "DroppedES",
                                 !.r.NumDropped = @ + 1,
                                 !.log = Append(@, [stmt |-> "DROP", elem |-> i, ok |-> TRUE])]
                         ELSE [prev EXCEPT
                                 !.r.Elements[i].Err = [failed |-> "drop", elem |-> i],
                                 !.r.Elements[i].Status = "DropFailedES",
                                 !.r.NumFailed = @ + 1,
                                 !.log = Append(@, [stmt |-> "DROP", elem |-> i, ok |-> FALSE]),
                                 !.err = IF tryAll THEN @ ELSE [failed |-> "drop", elem |-> i],
                                 !.done = ~tryAll]
    IN  step[n]

\* DropReportedElements(db, r, tryAll); failing is the set of elements
\* whose DROP statement the database rejects.  Step k of the loop handles
\* the element at Go index len-k, which is index n-k+1 here.
DropReportedElements(r, tryAll, failing) ==
    LET n == Len(r.Elements)
        start == [r |-> [r EXCEPT !.NumDropped = 0, !.NumFailed = 0,
                                  !.LastOp = "drop"],
                  err |-> NilErr, log |-> <<>>, done |-> FALSE, panic |-> "none"]
        step[k \in 0..n] ==
            IF k = 0 THEN start
            ELSE LET prev == step[k - 1]
                     i == n - k + 1
                     statusRec == prev.r.Elements[i]
                 IN  IF prev.done THEN prev
                     ELSE IF SQLKeyword(statusRec.ElemType) = "panic"
                         THEN [prev EXCEPT !.done = TRUE, !.panic = "SQLKeyword"]
                     ELSE IF i \notin failing
                         THEN [prev EXCEPT
                                 !.r.Elements[i].Err = NilErr,
                                 !.r.Elements[i].Status = "DroppedES",
                                 !.r.NumDropped = @ + 1,
                                 !.log = Append(@, [stmt |-> "DROP", elem |-> i, ok |-> TRUE])]
                         ELSE [prev EXCEPT
                                 !.r.Elements[i].Err = [failed |-> "drop", elem |-> i],
                                 !.r.Elements[i].Status = "DropFailedES",
                                 !.r.NumFailed = @ + 1,
                                 !.log = Append(@, [stmt |-> "DROP", elem |-> i, ok |-> FALSE]),
                                 !.err = IF tryAll THEN @ ELSE [failed |-> "drop", elem |-> i],
                                 !.done = ~tryAll]
    IN  step[n]

\* a report as earlier operations of the package can have left it: the
\* elements of the definitions, each with some status, counters not yet set
InitSchema ==
    /\ CodecIdle
    /\ call = NoCall
    /\ sd = NoSQLDef
    /\ run = NoRun
    /\ \E st \in [1..MaxElems -> LeftStatusCodes] :
          LET r0 == InitOpReportElements(ZeroReport, ElementDefs(MaxElems))
          IN  report = [r0 EXCEPT !.Elements =
                  [i \in 1..MaxElems |-> [r0.Elements[i] EXCEPT !.Status = st[i]]]]

CallCreateElements ==
    /\ call = NoCall
    /\ \E onlyStatus \in ElemStatusCodes, failing \in SUBSET (1..MaxElems) :
          LET out == CreateElements(report, ElementDefs(MaxElems), onlyStatus, failing)
          IN  /\ report' = out.r
              /\ call' = [fn |-> "CreateElements", onlyStatus |-> onlyStatus,
                          failing |-> failing, before |-> report,
                          err |-> out.err, log |-> out.log, panic |-> out.panic]
    /\ UNCHANGED <<codecVars, sd, run>>

CallDropReportedElements ==
    /\ call = NoCall
    /\ \E tryAll \in BOOLEAN, failing \in SUBSET (1..MaxElems) :
          LET out == DropReportedElements(report, tryAll, failing)
          IN  /\ report' = out.r
              /\ call' = [fn |-> "DropReportedElements", tryAll |-> tryAll,
                          failing |-> failing, before |-> report,
                          err |-> out.err, log |-> out.log, panic |-> out.panic]
    /\ UNCHANGED <<codecVars, sd, run>>

NextSchema == CallCreateElements \/ CallDropReportedElements

SpecSchema == InitSchema /\ [][NextSchema]_vars

\* the elements a call executed a statement for, in execution order
Attempted == [k \in 1..Len(call.log) |-> call.log[k].elem]

AttemptedSet == {call.log[k].elem : k \in 1..Len(call.log)}

Succeeded == {call.log[k].elem : k \in {j \in 1..Len(call.log) : call.log[j].ok}}

Selected == {i \in 1..MaxElems : call.before.Elements[i].Status = call.onlyStatus}

\* C15: CreateElements executes CREATE, in index order, exactly for the
\* elements whose status was onlyStatus up to and including the first one
\* that fails; a success leaves CreatedES, the failure leaves CreateFailedES
\* and is returned; every other element keeps its status; NumCreated counts
\* the elements this call created and NumFailed is 0 or 1.
CreateElementsContract ==
    call.fn = "CreateElements" =>
        /\ call.panic = "none"
        /\ \A k \in 1..Len(call.log) : call.log[k].stmt = "CREATE"
        /\ \A k \in 1..(Len(call.log) - 1) : Attempted[k] < Attempted[k + 1]
        /\ AttemptedSet =
              {i \in Selected : \A j \in Selected \cap call.failing : i <= j}
        /\ \A k \in 1..Len(call.log) :
              LET i == Attempted[k]
              IN  IF call.log[k].ok
                  THEN report.Elements[i].Status = "CreatedES"
                  ELSE /\ report.Elements[i].Status = "CreateFailedES"
                       /\ k = Len(call.log)
                       /\ call.err = [failed |-> "create", elem |-> i]
        /\ (call.err = NilErr) <=> (\A k \in 1..Len(call.log) : call.log[k].ok)
        /\ \A i \in (1..MaxElems) \ AttemptedSet :
              report.Elements[i] = call.before.Elements[i]
        /\ report.NumCreated = Cardinality(Succeeded)
        /\ report.NumCreated = Cardinality({i \in 1..MaxElems :
              /\ report.Elements[i].Status = "CreatedES"
              /\ i \in AttemptedSet})
        /\ report.NumFailed \in {0, 1}
        /\ report.NumFailed = Cardinality(AttemptedSet \ Succeeded)

\* a call that created one element, failed on a later one and left a still
\* later selected element untouched, next to an element of another status
CreateElementsContractWitness ==
    /\ call.fn = "CreateElements"
    /\ call.onlyStatus = "MissingES"
    /\ Len(call.log) = 2
    /\ call.log[1].ok /\ ~call.log[2].ok
    /\ \E i \in 1..MaxElems :
          /\ i > call.log[2].elem
          /\ call.before.Elements[i].Status = "MissingES"
          /\ report.Elements[i].Status = "MissingES"
    /\ report.NumCreated = 1 /\ report.NumFailed = 1

\* C16: DropReportedElements executes DROP from the last element towards
\* the first; without tryAll it stops at the first failure, returns it and
\* leaves the elements below untouched; with tryAll it goes through every
\* element; NumDropped + NumFailed is the number of statements executed.
DropReportedElementsContract ==
    call.fn = "DropReportedElements" =>
        /\ call.panic = "none"
        /\ \A k \in 1..Len(call.log) :
              /\ call.log[k].stmt = "DROP"
              /\ Attempted[k] = MaxElems - k + 1
              /\ report.Elements[Attempted[k]].Status =
                    IF call.log[k].ok THEN "DroppedES" ELSE "DropFailedES"
        /\ call.tryAll => Len(call.log) = MaxElems
        /\ ~call.tryAll =>
              /\ \A k \in 1..(Len(call.log) - 1) : call.log[k].ok
              /\ IF call.failing = {}
                 THEN Len(call.log) = MaxElems /\ call.err = NilErr
                 ELSE LET top == CHOOSE i \in call.failing :
                                     \A j \in call.failing : j <= i
                      IN  /\ Attempted[Len(call.log)] = top
                          /\ ~call.log[Len(call.log)].ok
                          /\ call.err = [failed |-> "drop", elem |-> top]
        /\ \A i \in (1..MaxElems) \ AttemptedSet :
              report.Elements[i] = call.before.Elements[i]
        /\ report.NumDropped + report.NumFailed = Len(call.log)
        /\ report.NumDropped = Cardinality(Succeeded)

\* a call without tryAll that dropped the last element, failed on the one
\* before it and left the first element as it was
DropReportedElementsContractWitness ==
    /\ call.fn = "DropReportedElements"
    /\ ~call.tryAll
    /\ Len(call.log) = 2
    /\ call.log[1].elem = MaxElems /\ call.log[1].ok
    /\ ~call.log[2].ok
    /\ report.Elements[1] = call.before.Elements[1]
    /\ report.NumDropped = 1 /\ report.NumFailed = 1

\* ---------------------------------------------------------------------
\* cstoresqlite0: creating a store definition (CreateSQLStore)
\* ---------------------------------------------------------------------
\* Go strings are sequences of one-character strings here.

\* the printable ASCII characters in code order, from the space (32) on;
\* the character of code 96 is written by its name
PrintableASCII ==
    <<
       " ", "!", "\"", "#", "$", "%", "&", "'", "(", ")", "*", "+",
       ",", "-", ".", "/", "0", "1", "2", "3", "4", "5", "6", "7",
       "8", "9", ":", ";", "<", "=", ">", "?", "@", "A", "B", "C",
       "D", "E", "F", "G", "H", "I", "J", "K", "L", "M", "N", "O",
       "P", "Q", "R", "S", "T", "U", "V", "W", "X", "Y", "Z", "[",
       "\\", "]", "^", "_", "backquote", "a", "b", "c", "d", "e", "f", "g",
       "h", "i", "j", "k", "l", "m", "n", "o", "p", "q", "r", "s",
       "t", "u", "v", "w", "x", "y", "z", "{", "|", "}", "~">>

\* the byte value of a character; the control characters used are 9 and 10
Code(c) ==
    CASE c = "\t" -> 9
      [] c = "\n" -> 10
      [] OTHER -> 31 + CHOOSE k \in 1..Len(PrintableASCII) : PrintableASCII[k] = c

\* the element of a one-element set; {f(v) : v \in {e}} evaluates e once
\* for all the uses that f makes of it
TheOne(S) == CHOOSE x \in S : TRUE

MinOf(S) == CHOOSE x \in S : \A y \in S : x <= y

MaxOf(S) == CHOOSE x \in S : \A y \in S : y <= x

\* the Go comparison a < b of two strings
StrLess(a, b) ==
    LET n == IF Len(a) < Len(b) THEN Len(a) ELSE Len(b)
        d == {i \in 1..n : a[i] # b[i]}
    IN  IF d = {} THEN Len(a) < Len(b)
        ELSE Code(a[MinOf(d)]) < Code(b[MinOf(d)])

WhiteSpace == {" ", "\t", "\n"}

\* strings.TrimSpace, bytes.TrimSpace
TrimSpace(s) ==
    LET keep == {i \in 1..Len(s) : s[i] \notin WhiteSpace}
    IN  IF keep = {} THEN <<>> ELSE SubSeq(s, MinOf(keep), MaxOf(keep))

\* strings.IndexByte, bytes.IndexByte: the Go index, -1 when absent
IndexByte(s, c) ==
    LET at == {i \in 1..Len(s) : s[i] = c}
    IN  IF at = {} THEN -1 ELSE MinOf(at) - 1

\* bytes.LastIndexByte
LastIndexByte(s, c) ==
    LET at == {i \in 1..Len(s) : s[i] = c}
    IN  IF at = {} THEN -1 ELSE MaxOf(at) - 1

\* strings.IndexAny
IndexAny(s, chars) ==
    LET at == {i \in 1..Len(s) : s[i] \in chars}
    IN  IF at = {} THEN -1 ELSE MinOf(at) - 1

\* strings.HasPrefix
HasPrefix(s, prefix) ==
    /\ Len(prefix) <= Len(s)
    /\ SubSeq(s, 1, Len(prefix)) = prefix

indexNotPrintable(s) ==
    LET at == {i \in 1..Len(s) : Code(s[i]) < 32 \/ Code(s[i]) = 127}
    IN  IF at = {} THEN -1 ELSE MinOf(at) - 1

indexNotPrintableASCII(s) ==
    LET at == {i \in 1..Len(s) : Code(s[i]) < 32 \/ Code(s[i]) > 126}
    IN  IF at = {} THEN -1 ELSE MinOf(at) - 1

entrySeparatorChar == ";"

badChars == {"\\", "'", "[", "]", "{", "}", "(", ")"}

\* bytes.Split(text, {entrySeparatorChar})
RECURSIVE SplitEntries(_)
SplitEntries(text) ==
    LET pos == IndexByte(text, entrySeparatorChar)
    IN  IF pos < 0 THEN <<text>>
        ELSE <<SubSeq(text, 1, pos)>> \o SplitEntries(SubSeq(text, pos + 2, Len(text)))

\* bytes.Join(fragments, "; ")
RECURSIVE JoinEntries(_)
JoinEntries(fragments) ==
    IF Len(fragments) = 0 THEN <<>>
    ELSE IF Len(fragments) = 1 THEN fragments[1]
    ELSE fragments[1] \o <<entrySeparatorChar, " ">> \o JoinEntries(Tail(fragments))

Entry(element, property, value) ==
    [ConfElement |-> element, ConfProperty |-> property, ConfValue |-> value,
     Rank |-> 0]

\* (*Entry).UnmarshalText
EntryUnmarshalText(text) ==
    LET eqPos == IndexByte(text, "=")
        beforeEq == SubSeq(text, 1, eqPos)
        dotPos == LastIndexByte(beforeEq, ".")
        value == TrimSpace(SubSeq(text, eqPos + 2, Len(text)))
    IN  IF eqPos < 0 THEN [err |-> [failed |-> "Equals sign not found"]]
        ELSE IF eqPos = 0 THEN [err |-> [failed |-> "No text before equals sign"]]
        ELSE IF dotPos < 0
            THEN [err |-> NilErr,
                  entry |-> Entry(<<>>, TrimSpace(beforeEq), value)]
            ELSE [err |-> NilErr,
                  entry |-> Entry(TrimSpace(SubSeq(beforeEq, 1, dotPos)),
                                  TrimSpace(SubSeq(beforeEq, dotPos + 2, Len(beforeEq))),
                                  value)]

\* (*List).UnmarshalText: the list is assigned only when no entry failed
ListUnmarshalText(text) ==
    LET loop(fragments) ==
            LET body(prev, i) ==
                    LET trimmed == TrimSpace(fragments[i])
                        parsed == EntryUnmarshalText(trimmed)
                    IN  IF prev.err # NilErr THEN prev
                        ELSE IF Len(trimmed) = 0 THEN prev
                        ELSE IF parsed.err # NilErr
                            THEN [prev EXCEPT !.err = [failed |-> "failed to unmarshal entry"]]
                        ELSE [prev EXCEPT !.list = Append(@, parsed.entry)]
                step[i \in 0..Len(fragments)] ==
                    IF i = 0 THEN [err |-> NilErr, list |-> <<>>]
                    ELSE TheOne({body(p, i) : p \in {step[i - 1]}})
            IN  step[Len(fragments)]
    IN  TheOne({loop(f) : f \in {SplitEntries(text)}})

\* Entry.MarshalText
EntryMarshalText(ce) ==
    LET elementErr ==
            IF TrimSpace(ce.ConfElement) # ce.ConfElement THEN "space around ConfElement"
            ELSE IF ce.ConfElement = <<>> THEN "none"
            ELSE IF IndexByte(ce.ConfElement, entrySeparatorChar) >= 0
                THEN "entry separator in ConfElement"
            ELSE IF IndexByte(ce.ConfElement, "=") >= 0 THEN "equals sign in ConfElement"
            ELSE IF indexNotPrintableASCII(ce.ConfElement) >= 0
                THEN "non-printable char in ConfElement"
            ELSE IF IndexAny(ce.ConfElement, badChars) >= 0
                THEN "unsupported char in ConfElement"
            ELSE "none"
        propertyErr ==
            IF TrimSpace(ce.ConfProperty) # ce.ConfProperty THEN "space around ConfProperty"
            ELSE IF ce.ConfProperty = <<>> THEN "empty ConfProperty"
            ELSE IF IndexByte(ce.ConfProperty, entrySeparatorChar) >= 0
                THEN "entry separator in ConfProperty"
            ELSE IF IndexByte(ce.ConfProperty, "=") >= 0 THEN "equals sign in ConfProperty"
            ELSE IF IndexByte(ce.ConfProperty, ".") >= 0 THEN "dot in ConfProperty"
            ELSE IF indexNotPrintableASCII(ce.ConfProperty) >= 0
                THEN "non-printable char in ConfProperty"
            ELSE IF IndexAny(ce.ConfProperty, badChars) >= 0
                THEN "unsupported char in ConfProperty"
            ELSE "none"
        valueErr ==
            IF TrimSpace(ce.ConfValue) # ce.ConfValue THEN "space around ConfValue"
            ELSE IF ce.ConfValue = <<>> THEN "empty ConfValue"
            ELSE IF IndexByte(ce.ConfValue, entrySeparatorChar) >= 0
                THEN "entry separator in ConfValue"
            ELSE IF indexNotPrintable(ce.ConfValue) >= 0
                THEN "non-printable char in ConfValue"
            ELSE IF IndexAny(ce.ConfValue, badChars) >= 0
                THEN "unsupported char in ConfValue"
            ELSE "none"
        elementText ==
            IF ce.ConfElement = <<>> THEN <<>> ELSE ce.ConfElement \o <<".">>
    IN  IF elementErr # "none" THEN [err |-> [failed |-> elementErr], text |-> <<>>]
        ELSE IF propertyErr # "none" THEN [err |-> [failed |-> propertyErr], text |-> <<>>]
        ELSE IF valueErr # "none" THEN [err |-> [failed |-> valueErr], text |-> <<>>]
        ELSE [err |-> NilErr,
              text |-> elementText \o ce.ConfProperty \o <<" ", "=", " ">> \o ce.ConfValue]

\* List.MarshalText: stops at the first entry that fails and joins the
\* fragments it has so far
ListMarshalText(clist) ==
    LET body(prev, m) ==
            IF prev.err # NilErr THEN prev
            ELSE IF m.err # NilErr
                THEN [prev EXCEPT !.err = [failed |-> "failed to marshal entry"]]
            ELSE IF Len(m.text) # 0
                THEN [prev EXCEPT !.fragments = Append(@, m.text)]
            ELSE prev
        step[i \in 0..Len(clist)] ==
            IF i = 0 THEN [err |-> NilErr, fragments |-> <<>>]
            ELSE TheOne({body(p, m) : p \in {step[i - 1]},
                                      m \in {EntryMarshalText(clist[i])}})
        result(last) == [err |-> last.err, text |-> JoinEntries(last.fragments)]
    IN  TheOne({result(last) : last \in {step[Len(clist)]}})

\* CanonicalOrder.Less; its last comparison is of a value with itself
CanonicalLess(a, b) ==
    IF StrLess(a.ConfElement, b.ConfElement) THEN TRUE
    ELSE IF StrLess(b.ConfElement, a.ConfElement) THEN FALSE
    ELSE IF StrLess(a.ConfProperty, b.ConfProperty) THEN TRUE
    ELSE IF StrLess(b.ConfProperty, a.ConfProperty) THEN FALSE
    ELSE StrLess(a.ConfValue, a.ConfValue)

\* RankOrder.Less; its last comparison is of a value with itself
RankLess(a, b) ==
    IF a.Rank < b.Rank THEN TRUE
    ELSE IF a.Rank > b.Rank THEN FALSE
    ELSE IF StrLess(a.ConfElement, b.ConfElement) THEN TRUE
    ELSE IF StrLess(b.ConfElement, a.ConfElement) THEN FALSE
    ELSE IF StrLess(a.ConfProperty, b.ConfProperty) THEN TRUE
    ELSE IF StrLess(b.ConfProperty, a.ConfProperty) THEN FALSE
    ELSE StrLess(a.ConfValue, a.ConfValue)

\* sort.Sort on the short lists of a configuration (fewer than 12
\* entries): an insertion sort, each entry moving left while it is Less
\* than its left neighbour
SortEntries(list, order) ==
    LET Less(a, b) == IF order = "RankOrder" THEN RankLess(a, b)
                      ELSE CanonicalLess(a, b)
        place(p, x, m) == SubSeq(p, 1, m) \o <<x>> \o SubSeq(p, m + 1, Len(p))
        insert(p, x) ==
            TheOne({place(p, x, m) :
                m \in {MaxOf({0} \cup {j \in 1..Len(p) : ~Less(x, p[j])})}})
        sorted[i \in 0..Len(list)] ==
            IF i = 0 THEN <<>>
            ELSE TheOne({insert(p, list[i]) : p \in {sorted[i - 1]}})
    IN  sorted[Len(list)]

maxBytes == 100

MaxInt32 == 2147483647

rankByElementPrefixLength(confEntry) ==
    LET nBytes == Len(confEntry.ConfElement)
        starPos == IndexByte(confEntry.ConfElement, "*")
    IN  IF nBytes > maxBytes
            THEN [confEntry EXCEPT !.ConfElement = <<>>, !.Rank = -99]
        ELSE IF nBytes = 0 THEN [confEntry EXCEPT !.Rank = -2]
        ELSE IF starPos >= 0
            THEN IF starPos = nBytes - 1
                 THEN [confEntry EXCEPT !.Rank = starPos]
                 ELSE [confEntry EXCEPT !.Rank = -5]
        ELSE [confEntry EXCEPT !.Rank = MaxInt32]

\* organizeConfEntries: ranks and sorts the entries in place, then returns
\* the part from iSkip on.  iSkip is the Go index of the first entry of
\* rank >= 0, or, the range loop having run out, the last index, or 0 for
\* an empty list.
organizeConfEntries(confEntries) ==
    LET ranked == [i \in 1..Len(confEntries) |->
                      rankByElementPrefixLength(confEntries[i])]
        skip(sorted) ==
            LET nonNeg == {i \in 1..Len(sorted) : sorted[i].Rank >= 0}
                iSkip == IF Len(sorted) = 0 THEN 0
                         ELSE IF nonNeg # {} THEN MinOf(nonNeg) - 1
                         ELSE Len(sorted) - 1
            IN  [sorted |-> sorted,
                 matchable |-> SubSeq(sorted, iSkip + 1, Len(sorted))]
    IN  TheOne({skip(SortEntries(r, "RankOrder")) : r \in {ranked}})

\* the zero value of sqlTemplateData
ZeroTemplateData ==
    [Prefix |-> <<>>, IDTableName |-> <<>>, ReferencesIDTable |-> <<>>,
     ReferToMainChangeSetTable |-> FALSE, ReferencesChangeSetIDTable |-> <<>>,
     IndexOrganizedTableL1 |-> FALSE, IndexOrganizedTableL2 |-> FALSE]

getConfBool(confValue, defaultVal) ==
    IF confValue \in {<<"Y">>, <<"y">>, <<"T">>, <<"t">>} THEN TRUE
    ELSE IF confValue \in {<<"N">>, <<"n">>, <<"F">>, <<"f">>} THEN FALSE
    ELSE defaultVal

setSQLTemplateDataVal(dest, confEntry) ==
    CASE confEntry.ConfProperty = <<"I", "D", "T", "a", "b", "l", "e">> ->
            [dest EXCEPT !.IDTableName = confEntry.ConfValue]
      [] confEntry.ConfProperty = <<"I", "O", "T", "L", "1">> ->
            [dest EXCEPT !.IndexOrganizedTableL1 = getConfBool(confEntry.ConfValue, FALSE)]
      [] confEntry.ConfProperty = <<"I", "O", "T", "L", "2">> ->
            [dest EXCEPT !.IndexOrganizedTableL2 = getConfBool(confEntry.ConfValue, FALSE)]
      [] OTHER -> dest

\* setSpecificSQLTemplateData; entry.ConfElement[nBytes-1] is an index out
\* of range, a run-time panic, when the element string is empty
setSpecificSQLTemplateData(dest, confEntries, elementName) ==
    LET body(prev, entry) ==
            LET nBytes == Len(entry.ConfElement)
            IN  IF prev.panic # "none" THEN prev
                ELSE IF nBytes - 1 < 0
                    THEN [prev EXCEPT !.panic = "index out of range"]
                ELSE IF entry.ConfElement[nBytes] = "*"
                    THEN IF HasPrefix(elementName, SubSeq(entry.ConfElement, 1, nBytes - 1))
                         THEN [prev EXCEPT !.data = setSQLTemplateDataVal(@, entry)]
                         ELSE prev
                ELSE IF elementName = entry.ConfElement
                    THEN [prev EXCEPT !.data = setSQLTemplateDataVal(@, entry)]
                ELSE prev
        step[i \in 0..Len(confEntries)] ==
            IF i = 0 THEN [data |-> dest, panic |-> "none"]
            ELSE TheOne({body(p, confEntries[i]) : p \in {step[i - 1]}})
    IN  step[Len(confEntries)]

SafeNameChars ==
    {"a", "b", "c", "d", "e", "f", "g", "h", "i", "j", "k", "l", "m",
     "n", "o", "p", "q", "r", "s", "t", "u", "v", "w", "x", "y", "z",
     "0", "1", "2", "3", "4", "5", "6", "7", "8", "9", "_"}

\* checkSafeNameChars: TRUE when it returns an error
checkSafeNameChars(nameFragment) ==
    \E i \in 1..Len(nameFragment) : nameFragment[i] \notin SafeNameChars

tableCStoreConfBN == <<"c", "s", "t", "o", "r", "e", "_", "c", "o", "n", "f">>

tableCSetInfoBN == <<"c", "s", "e", "t", "_", "i", "n", "f", "o">>

tableCRecIDObjBN == <<"c", "r", "e", "c", "_", "i", "d", "o", "b", "j">>

tableCRecLangStringBN == <<"c", "r", "e", "c", "_", "l", "a", "n", "g", "s", "t", "r", "i", "n", "g">>

tableCRecLitDatatypeBN == <<"c", "r", "e", "c", "_", "l", "i", "t", "d", "a", "t", "a", "t", "y", "p", "e">>

tableCRecOrdContBN == <<"c", "r", "e", "c", "_", "o", "r", "d", "c", "o", "n", "t">>

viewAllCRecBN == <<"a", "l", "l", "_", "c", "r", "e", "c">>

\* elementTemplates; CreateSQL stands for the template text of the element
elementTemplates ==
    <<[ElemType |-> "TableElem", BaseName |-> tableCStoreConfBN, CreateSQL |-> "tableCStoreConfCre"],
      [ElemType |-> "TableElem", BaseName |-> tableCSetInfoBN, CreateSQL |-> "tableCSetInfoCre"],
      [ElemType |-> "TableElem", BaseName |-> tableCRecIDObjBN, CreateSQL |-> "tableCRecIDObjCre"],
      [ElemType |-> "TableElem", BaseName |-> tableCRecLangStringBN, CreateSQL |-> "tableCRecLangStringCre"],
      [ElemType |-> "TableElem", BaseName |-> tableCRecLitDatatypeBN, CreateSQL |-> "tableCRecLitDatatypeCre"],
      [ElemType |-> "TableElem", BaseName |-> tableCRecOrdContBN, CreateSQL |-> "tableCRecOrdContCre"],
      [ElemType |-> "ViewElem", BaseName |-> viewAllCRecBN, CreateSQL |-> "viewAllCRecCre"]>>

nElements == Len(elementTemplates)

\* generateSQL: the text rendered from a template is determined by the
\* template and the data it is executed with
generateSQL(sqlTemplate, data) == [template |-> sqlTemplate, data |-> data]

\* generateDefsForAllElements; the result holds the definitions generated
\* before a panic, if any, and the entries as organizeConfEntries leaves
\* them in the caller's slice
generateDefsForAllElements(templates, prefix, confEntries) ==
    LET loop(organized) ==
            LET body(prev, i, specific) ==
                    LET baseName == templates[i].BaseName
                        withRef == IF specific.data.IDTableName # <<>>
                                   THEN [specific.data EXCEPT !.ReferencesIDTable =
                                           <<" ", "R", "E", "F", "E", "R", "E", "N", "C", "E", "S", " ">> \o specific.data.IDTableName]
                                   ELSE specific.data
                        data == [withRef EXCEPT !.Prefix = prefix]
                    IN  IF prev.panic # "none" THEN prev
                        ELSE IF specific.panic # "none"
                            THEN [prev EXCEPT !.panic = specific.panic]
                        ELSE [prev EXCEPT !.generated = Append(@,
                                 [ElemType |-> templates[i].ElemType,
                                  BaseName |-> baseName,
                                  Name |-> prefix \o baseName,
                                  CreateSQL |-> generateSQL(templates[i].CreateSQL, data)])]
                step[i \in 0..Len(templates)] ==
                    IF i = 0 THEN [generated |-> <<>>, panic |-> "none"]
                    ELSE TheOne({body(p, i, specific) :
                            p \in {step[i - 1]},
                            specific \in {setSpecificSQLTemplateData(ZeroTemplateData,
                                             organized.matchable, templates[i].BaseName)}})
                result(last) == [generated |-> last.generated, panic |-> last.panic,
                                 confEntries |-> organized.sorted]
            IN  TheOne({result(last) : last \in {step[Len(templates)]}})
    IN  IF checkSafeNameChars(prefix)
        THEN [generated |-> <<>>, panic |-> "unsafe prefix", confEntries |-> confEntries]
        ELSE TheOne({loop(o) : o \in {organizeConfEntries(confEntries)}})

cstoreImplName == <<"c", "s", "t", "o", "r", "e", "s", "q", "l", "i", "t", "e", "0">>

prependImplInfoToConf(confEntries) ==
    <<Entry(<<>>, <<"C", "S", "t", "o", "r", "e", "I", "m", "p", "l", "N", "a", "m", "e">>, cstoreImplName)>> \o confEntries

\* setupElements(c): c holds prefix and dbConf; the result holds the
\* fields it leaves in c
setupElements(c) ==
    LET set(marshaled, gen) ==
            IF marshaled.err # NilErr
            THEN [err |-> [failed |-> "Could not marshal DB conf"], panic |-> "none",
                  dbConf |-> c.dbConf, elementDefs |-> <<>>, report |-> ZeroReport]
            ELSE IF gen.panic # "none"
            THEN [err |-> NilErr, panic |-> gen.panic,
                  dbConf |-> gen.confEntries, elementDefs |-> gen.generated,
                  report |-> [ZeroReport EXCEPT !.Conf = marshaled.text]]
            ELSE [err |-> NilErr, panic |-> "none",
                  dbConf |-> gen.confEntries, elementDefs |-> gen.generated,
                  report |-> InitOpReportElements(
                                [ZeroReport EXCEPT !.Conf = marshaled.text], gen.generated)]
    IN  TheOne({set(m, g) :
            m \in {ListMarshalText(c.dbConf)},
            g \in {generateDefsForAllElements(elementTemplates, c.prefix, c.dbConf)}})

\* the rest of CreateSQLStore once the read has shown no store
BuildSQLDef(storePrefix, schemaCreationOptions) ==
    LET made(parsed, set) ==
            IF parsed.err # NilErr
            THEN [sd |-> NoSQLDef, report |-> ZeroReport, panic |-> "none", err |-> parsed.err]
            ELSE IF set.panic # "none"
            THEN [sd |-> NoSQLDef, report |-> ZeroReport, panic |-> set.panic, err |-> NilErr]
            ELSE IF set.err # NilErr
            THEN [sd |-> NoSQLDef, report |-> ZeroReport, panic |-> "none", err |-> set.err]
            ELSE [sd |-> [prefix |-> storePrefix, dbConf |-> set.dbConf,
                          elementDefs |-> set.elementDefs, createStoreReq |-> TRUE],
                  report |-> set.report, panic |-> "none", err |-> NilErr]
        setup(parsed) ==
            TheOne({made(parsed, set) :
                set \in {setupElements([prefix |-> storePrefix, dbConf |-> extendedConf]) :
                    extendedConf \in {prependImplInfoToConf(
                        SortEntries(parsed.list, "CanonicalOrder"))}}})
    IN  TheOne({setup(p) : p \in {ListUnmarshalText(schemaCreationOptions)}})

\* CreateSQLStore that builds the definition whatever the read returned
CreateSQLStoreOverwrites(read, storePrefix, schemaCreationOptions) ==
    IF checkSafeNameChars(storePrefix)
    THEN [sd |-> NoSQLDef, report |-> ZeroReport, panic |-> "none",
          err |-> [failed |-> "Name fragment is not safe"]]
    ELSE BuildSQLDef(storePrefix, schemaCreationOptions)

\* CreateSQLStore(db, storePrefix, schemaCreationOptions); read is what
\* cstoreconfsql.ReadConfFromDB returns for the prefix: the number n of
\* entries and whether err is non-nil.  The result holds the returned
\* SQLDef with its report, the returned error, and a panic if one ends
\* the call.
CreateSQLStore(read, storePrefix, schemaCreationOptions) ==
    IF checkSafeNameChars(storePrefix)
    THEN [sd |-> NoSQLDef, report |-> ZeroReport, panic |-> "none",
          err |-> [failed |-> "Name fragment is not safe"]]
    ELSE IF read.failed /\ read.n # 0
    THEN [sd |-> NoSQLDef, report |-> ZeroReport, panic |-> "none",
          err |-> [failed |-> "Store probably exists"]]
    ELSE IF ~read.failed
    THEN [sd |-> NoSQLDef, report |-> ZeroReport, panic |-> "none",
          err |-> [failed |-> "Store already exists"]]
    ELSE BuildSQLDef(storePrefix, schemaCreationOptions)

\* how many configuration entries a read of the store returns at most
MaxRead == 2

\* what cstoreconfsql.ReadConfFromDB can return
ReadOutcomes == [n : 0..MaxRead, failed : BOOLEAN]

StorePrefixes ==
    {<<>>,
     <<"c", "s", "t", "1", "_">>,
     <<"B", "a", "d">>,
     <<"d", "b", ".">>}

CreationOptions ==
    {<<>>,
     <<" ", ";", " ">>,
     <<"c", "r", "e", "c", "_", "*", ".", "I", "O", "T", "L", "1", " ", "=", " ", "y">>,
     <<"I", "D", "T", "a", "b", "l", "e", " ", "=", " ", "i", "d", "s">>,
     <<"c", "r", "e", "c", "_", "i", "d", "o", "b", "j", ".", "I", "O", "T", "L", "2", " ", "=", " ", "n", ";", " ", "c", "r", "e", "c", "_", "*", ".", "I", "D", "T", "a", "b", "l", "e", " ", "=", " ", "i", "d", "s">>,
     <<"a", "*", "b", ".", "I", "O", "T", "L", "1", " ", "=", " ", "y">>,
     <<"n", "o", "n", "s", "e", "n", "s", "e">>,
     <<"c", "s", "e", "t", "_", "i", "n", "f", "o", ".", "S", "p", "e", "e", "d", " ", "=", " ", "(", "f", "a", "s", "t", ")">>}

\* a call of CreateSQLStore about to be made
InitStore ==
    /\ CodecIdle
    /\ SchemaIdle
    /\ sd = NoSQLDef
    /\ run = NoRun
    /\ \E read \in ReadOutcomes, storePrefix \in StorePrefixes,
          schemaCreationOptions \in CreationOptions :
          call = [fn |-> "CreateSQLStore", done |-> FALSE, read |-> read,
                  storePrefix |-> storePrefix,
                  schemaCreationOptions |-> schemaCreationOptions,
                  err |-> NilErr, panic |-> "none"]

CallCreateSQLStore ==
    /\ call.fn = "CreateSQLStore"
    /\ ~call.done
    /\ \E out \in {CreateSQLStore(call.read, call.storePrefix,
                                   call.schemaCreationOptions)} :
          /\ sd' = out.sd
          /\ report' = out.report
          /\ call' = [call EXCEPT !.done = TRUE, !.err = out.err, !.panic = out.panic]
    /\ UNCHANGED <<codecVars, run>>

NextStore == CallCreateSQLStore

SpecStore == InitStore /\ [][NextStore]_vars

CreateReturned == call.fn = "CreateSQLStore" /\ call.done

\* C12: CreateSQLStore returns an error and no SQLDef when the read of the
\* store configuration succeeds and when it fails with n # 0 entries; an
\* SQLDef is returned only after a read that failed with no entry.
CreateRefusesExistingStore ==
    CreateReturned =>
        /\ (~call.read.failed \/ call.read.n # 0) =>
              /\ call.err # NilErr
              /\ call.panic = "none"
              /\ sd = NoSQLDef
        /\ sd # NoSQLDef => (call.read.failed /\ call.read.n = 0)
        /\ sd # NoSQLDef => call.err = NilErr

\* a refused creation for a safe prefix after a read that failed with one
\* entry, and a definition returned after a read that failed with none
CreateRefusesExistingStoreWitness ==
    /\ CreateReturned
    /\ ~checkSafeNameChars(call.storePrefix)
    /\ \/ /\ call.read.failed /\ call.read.n = 1
          /\ call.err = [failed |-> "Store probably exists"]
          /\ sd = NoSQLDef
       \/ /\ call.read.failed /\ call.read.n = 0
          /\ sd # NoSQLDef
          /\ sd.createStoreReq

\* C14: CreateSQLStore with empty creation options, a safe prefix and no
\* store found returns, without error or panic, an SQLDef with a
\* definition generated for every element.
EmptyOptionsCreateStore ==
    ( /\ CreateReturned
      /\ call.schemaCreationOptions = <<>>
      /\ ~checkSafeNameChars(call.storePrefix)
      /\ call.read.failed /\ call.read.n = 0 ) =>
        /\ call.panic = "none"
        /\ call.err = NilErr
        /\ sd # NoSQLDef
        /\ Len(sd.elementDefs) = nElements

\* ---------------------------------------------------------------------
\* csimpextry0: the order of the actions in dbMain
\* ---------------------------------------------------------------------

\* cstActions as dbMain uses it: the three flags, and for each request
\* pointer whether it is set
ActionSets ==
    [createStore : BOOLEAN, createMissingElems : BOOLEAN, dropAllElems : BOOLEAN,
     expFirstReq : BOOLEAN, impReq : BOOLEAN, expLastReq : BOOLEAN]

\* the non-zero results of doExport and doImport
FailureResults == {1, 2}

\* how a call can come out: "ok" is a nil error or a zero result, "fail"
\* a non-nil error or a non-zero result
Outcomes == {"ok", "fail"}

\* the calls of dbMain in the order of its text
CallOrder ==
    <<"sql.Open", "db.Ping", "CreateSQLStore", "OpenSQLStore", "CheckCStoreSchema",
      "CreateCStoreSchemaElements", "UseCStore", "doExport first", "doImport",
      "doExport last", "DropCStoreSchemaElements">>

\* dbMain has been entered with some set of requested actions
InitMain ==
    /\ CodecIdle
    /\ SchemaIdle
    /\ sd = NoSQLDef
    /\ call = NoCall
    /\ \E actions \in ActionSets :
          run = [pc |-> "open", actions |-> actions, calls |-> <<>>,
                 dbOpen |-> FALSE, dopOpen |-> FALSE, ret |-> 0]

notMainVars == <<codecVars, call, report, sd>>

\* a call made with the given outcome: on "ok" the run goes on at next,
\* on "fail" dbMain returns code, and on either exit the deferred Close
\* calls run
Made(name, outcome, next, code) ==
    LET logged == [run EXCEPT !.calls = Append(@, [name |-> name, outcome |-> outcome])]
    IN  IF outcome = "ok"
        THEN [logged EXCEPT !.pc = next]
        ELSE [logged EXCEPT !.pc = IF outcome = "panic" THEN "panicked" ELSE "returned",
                            !.ret = code, !.dbOpen = FALSE, !.dopOpen = FALSE]

OpenDB ==
    /\ run.pc = "open"
    /\ \E outcome \in Outcomes :
          run' = IF outcome = "ok"
                 THEN [Made("sql.Open", outcome, "ping", 0) EXCEPT !.dbOpen = TRUE]
                 ELSE Made("sql.Open", outcome, "ping", 3)
    /\ UNCHANGED notMainVars

PingDB ==
    /\ run.pc = "ping"
    /\ \E outcome \in Outcomes : run' = Made("db.Ping", outcome, "sqldef", 4)
    /\ UNCHANGED notMainVars

\* CreateSQLStore can end in a panic as well as in an error
GetSQLDef ==
    /\ run.pc = "sqldef"
    /\ IF run.actions.createStore
       THEN \E outcome \in Outcomes \cup {"panic"} :
               run' = Made("CreateSQLStore", outcome, "check", 5)
       ELSE \E outcome \in Outcomes :
               run' = Made("OpenSQLStore", outcome, "check", 6)
    /\ UNCHANGED notMainVars

CheckSchema ==
    /\ run.pc = "check"
    /\ \E outcome \in Outcomes : run' = Made("CheckCStoreSchema", outcome, "create", 7)
    /\ UNCHANGED notMainVars

CreateSchemaElements ==
    /\ run.pc = "create"
    /\ IF run.actions.createStore \/ run.actions.createMissingElems
       THEN \E outcome \in Outcomes :
               run' = Made("CreateCStoreSchemaElements", outcome, "use", 7)
       ELSE run' = [run EXCEPT !.pc = "use"]
    /\ UNCHANGED notMainVars

UseCStore ==
    /\ run.pc = "use"
    /\ \E outcome \in Outcomes :
          run' = IF outcome = "ok"
                 THEN [Made("UseCStore", outcome, "expFirst", 0) EXCEPT !.dopOpen = TRUE]
                 ELSE Made("UseCStore", outcome, "expFirst", 7)
    /\ UNCHANGED notMainVars

ExportFirst ==
    /\ run.pc = "expFirst"
    /\ IF run.actions.expFirstReq
       THEN \E ret \in {0} \cup FailureResults :
               run' = Made("doExport first", IF ret = 0 THEN "ok" ELSE "fail", "import", ret)
       ELSE run' = [run EXCEPT !.pc = "import"]
    /\ UNCHANGED notMainVars

Import ==
    /\ run.pc = "import"
    /\ IF run.actions.impReq
       THEN \E ret \in {0} \cup FailureResults :
               run' = Made("doImport", IF ret = 0 THEN "ok" ELSE "fail", "expLast", ret)
       ELSE run' = [run EXCEPT !.pc = "expLast"]
    /\ UNCHANGED notMainVars

ExportLast ==
    /\ run.pc = "expLast"
    /\ IF run.actions.expLastReq
       THEN \E ret \in {0} \cup FailureResults :
               run' = Made("doExport last", IF ret = 0 THEN "ok" ELSE "fail", "drop", ret)
       ELSE run' = [run EXCEPT !.pc = "drop"]
    /\ UNCHANGED notMainVars

\* DropCStoreSchemaElements without the three steps before it having run
DropAllEarly ==
    /\ run.pc \in {"expFirst", "drop"}
    /\ IF run.actions.dropAllElems
       THEN \E outcome \in Outcomes :
               run' = Made("DropCStoreSchemaElements", outcome, "end", 9)
       ELSE run' = [run EXCEPT !.pc = "end"]
    /\ UNCHANGED notMainVars

DropAll ==
    /\ run.pc = "drop"
    /\ IF run.actions.dropAllElems
       THEN \E outcome \in Outcomes :
               run' = Made("DropCStoreSchemaElements", outcome, "end", 9)
       ELSE run' = [run EXCEPT !.pc = "end"]
    /\ UNCHANGED notMainVars

\* return 0, with the deferred dop.Close and db.Close
ReturnZero ==
    /\ run.pc = "end"
    /\ run' = [run EXCEPT !.pc = "returned", !.ret = 0,
                          !.dbOpen = FALSE, !.dopOpen = FALSE]
    /\ UNCHANGED notMainVars

NextMain ==
    \/ OpenDB
    \/ PingDB
    \/ GetSQLDef
    \/ CheckSchema
    \/ CreateSchemaElements
    \/ UseCStore
    \/ ExportFirst
    \/ Import
    \/ ExportLast
    \/ DropAll
    \/ ReturnZero

SpecMain == InitMain /\ [][NextMain]_vars

\* the place of a call in CallOrder
OrderOf(name) == CHOOSE k \in 1..Len(CallOrder) : CallOrder[k] = name

\* the five actions of cstActions, each with the call that performs it
\* and whether the run was asked for it
RequestedCalls ==
    {a \in {"CreateCStoreSchemaElements", "doExport first", "doImport",
            "doExport last", "DropCStoreSchemaElements"} :
        CASE a = "CreateCStoreSchemaElements" ->
                run.actions.createStore \/ run.actions.createMissingElems
          [] a = "doExport first" -> run.actions.expFirstReq
          [] a = "doImport" -> run.actions.impReq
          [] a = "doExport last" -> run.actions.expLastReq
          [] a = "DropCStoreSchemaElements" -> run.actions.dropAllElems}

CallSucceeded(k) == run.calls[k].outcome = "ok"

\* C13: the calls of a run are made in the order create, export-first,
\* import, export-last, drop; an action is called only when requested,
\* at most once, and only after every requested earlier action has
\* returned without failure; a call that fails is the last call of the
\* run, so no drop follows a failed create, export or import.
ActionsInFixedOrder ==
    run.pc # "none" =>
        /\ \A k \in 1..(Len(run.calls) - 1) :
              /\ OrderOf(run.calls[k].name) < OrderOf(run.calls[k + 1].name)
              /\ CallSucceeded(k)
        /\ \A k \in 1..Len(run.calls) :
              LET name == run.calls[k].name
              IN  /\ ( /\ OrderOf(name) >= OrderOf("CreateCStoreSchemaElements")
                        /\ name # "UseCStore" ) => name \in RequestedCalls
                  /\ \A earlier \in RequestedCalls :
                        OrderOf(earlier) < OrderOf(name) =>
                           \E j \in 1..(k - 1) :
                              /\ run.calls[j].name = earlier
                              /\ CallSucceeded(j)
        /\ (\E k \in 1..Len(run.calls) : ~CallSucceeded(k)) =>
              /\ run.pc \in {"returned", "panicked"}
              /\ (run.pc = "returned" => run.ret # 0)
        /\ (run.pc = "returned" /\ run.ret = 0) =>
              \A a \in RequestedCalls : \E k \in 1..Len(run.calls) :
                  run.calls[k].name = a /\ CallSucceeded(k)

\* a run asked for all five actions in which the import failed after the
\* creation and the first export, and that ended without export-last or drop
ActionsInFixedOrderWitness ==
    /\ run.pc = "returned"
    /\ run.ret # 0
    /\ run.actions.dropAllElems /\ run.actions.expLastReq
    /\ Len(run.calls) = 8
    /\ run.calls[5].name = "CreateCStoreSchemaElements"
    /\ run.calls[7].name = "doExport first"
    /\ run.calls[8].name = "doImport"
    /\ ~CallSucceeded(8)

\* ---------------------------------------------------------------------
\* cstoresqlite0: checking, creating and dropping the schema of a store
\* through an SQLDef (CheckCStoreSchema, CreateCStoreSchemaElements,
\* DropCStoreSchemaElements) and geconfsql.InsertEntriesIntoDB
\* ---------------------------------------------------------------------

Digits == <<"1", "2", "3", "4", "5", "6", "7", "8", "9">>

tableCStoreConfEI == 1

OpCheck == "check"

OpCheckFailDB == "check failed to get DB schema"

ReadErr == [failed |-> "ReadFromDB"]

\* the elementDefs of an SQLDef: ElementDefs with the generated CREATE
\* statement of each element, which generateSQL leaves trimmed
StoreElementDefs(n) ==
    [i \in 1..n |->
        [ElemType |-> ElementDefs(n)[i].ElemType,
         BaseName |-> i, Name |-> i, CreateSQL |-> <<"S", Digits[i]>>]]

\* checkCStoreSchema with the four counters left as they were
checkCStoreSchemaAccumulates(c, dbElementsFound) ==
    LET names == {dbElementsFound[k].Name : k \in 1..Len(dbElementsFound)}
        dbNamesFound == [nm \in names |->
            dbElementsFound[MaxOf({k \in 1..Len(dbElementsFound) :
                                      dbElementsFound[k].Name = nm})]]
        start == [r |-> c.report, done |-> FALSE, panic |-> "none"]
        found(prev, i) ==
            [prev EXCEPT !.r.Elements[i].Status = "FoundES", !.r.NumFound = @ + 1]
        body(prev, i) ==
            LET statusRec == prev.r.Elements[i]
                elem == c.elementDefs[i]
            IN  IF prev.done THEN prev
                ELSE IF statusRec.ElemType # elem.ElemType
                    THEN [prev EXCEPT !.done = TRUE, !.panic = "different ElemType"]
                ELSE IF statusRec.BaseName # elem.BaseName
                    THEN [prev EXCEPT !.done = TRUE, !.panic = "different BaseName"]
                ELSE IF statusRec.Name # elem.Name
                    THEN [prev EXCEPT !.done = TRUE, !.panic = "different Name"]
                ELSE IF elem.Name \in names
                    THEN IF dbNamesFound[elem.Name].ElemType = elem.ElemType
                         THEN IF TrimSpace(dbNamesFound[elem.Name].CreateSQL) = elem.CreateSQL
                              THEN [found(prev, i) EXCEPT
                                      !.r.Elements[i].Status = "MatchedES",
                                      !.r.NumMatched = @ + 1]
                              ELSE [found(prev, i) EXCEPT
                                      !.r.Elements[i].Status = "MismatchedES",
                                      !.r.Elements[i].ProblemDetail = "diff",
                                      !.r.NumMismatched = @ + 1]
                         ELSE [found(prev, i) EXCEPT
                                 !.r.Elements[i].Status = "MismatchedES",
                                 !.r.Elements[i].ProblemDetail = "type",
                                 !.r.NumMismatched = @ + 1]
                    ELSE [prev EXCEPT
                            !.r.Elements[i].Status = "MissingES",
                            !.r.NumMissing = @ + 1]
        step[i \in 0..Len(c.report.Elements)] ==
            IF i = 0 THEN start
            ELSE TheOne({body(p, i) : p \in {step[i - 1]}})
        last == step[Len(c.report.Elements)]
    IN  [report |-> IF last.panic = "none"
                    THEN [last.r EXCEPT !.LastOp = OpCheck] ELSE last.r,
         err |-> NilErr, panic |-> last.panic]

\* checkCStoreSchema(c, dbElementsFound): c holds report and elementDefs.
\* dbNamesFound keeps the last element found under each name; found is
\* the status record marked FoundES before the comparison overrides it.
\* The result holds the report as left in c.report.
checkCStoreSchema(c, dbElementsFound) ==
    LET names == {dbElementsFound[k].Name : k \in 1..Len(dbElementsFound)}
        dbNamesFound == [nm \in names |->
            dbElementsFound[MaxOf({k \in 1..Len(dbElementsFound) :
                                      dbElementsFound[k].Name = nm})]]
        start == [r |-> [c.report EXCEPT !.NumFound = 0, !.NumMissing = 0,
                                         !.NumMatched = 0, !.NumMismatched = 0],
                  done |-> FALSE, panic |-> "none"]
        found(prev, i) ==
            [prev EXCEPT !.r.Elements[i].Status = "FoundES", !.r.NumFound = @ + 1]
        body(prev, i) ==
            LET statusRec == prev.r.Elements[i]
                elem == c.elementDefs[i]
            IN  IF prev.done THEN prev
                ELSE IF statusRec.ElemType # elem.ElemType
                    THEN [prev EXCEPT !.done = TRUE, !.panic = "different ElemType"]
                ELSE IF statusRec.BaseName # elem.BaseName
                    THEN [prev EXCEPT !.done = TRUE, !.panic = "different BaseName"]
                ELSE IF statusRec.Name # elem.Name
                    THEN [prev EXCEPT !.done = TRUE, !.panic = "different Name"]
                ELSE IF elem.Name \in names
                    THEN IF dbNamesFound[elem.Name].ElemType = elem.ElemType
                         THEN IF TrimSpace(dbNamesFound[elem.Name].CreateSQL) = elem.CreateSQL
                              THEN [found(prev, i) EXCEPT
                                      !.r.Elements[i].Status = "MatchedES",
                                      !.r.NumMatched = @ + 1]
                              ELSE [found(prev, i) EXCEPT
                                      !.r.Elements[i].Status = "MismatchedES",
                                      !.r.Elements[i].ProblemDetail = "diff",
                                      !.r.NumMismatched = @ + 1]
                         ELSE [found(prev, i) EXCEPT
                                 !.r.Elements[i].Status = "MismatchedES",
                                 !.r.Elements[i].ProblemDetail = "type",
                                 !.r.NumMismatched = @ + 1]
                    ELSE [prev EXCEPT
                            !.r.Elements[i].Status = "MissingES",
                            !.r.NumMissing = @ + 1]
        step[i \in 0..Len(c.report.Elements)] ==
            IF i = 0 THEN start
            ELSE TheOne({body(p, i) : p \in {step[i - 1]}})
        last == step[Len(c.report.Elements)]
    IN  [report |-> IF last.panic = "none"
                    THEN [last.r EXCEPT !.LastOp = OpCheck] ELSE last.r,
         err |-> NilErr, panic |-> last.panic]

\* (*cstoreSQLiteDef).CheckCStoreSchema; read is what ReadFromDB returned
CheckCStoreSchema(c, read) ==
    IF read.failed
    THEN [report |-> [c.report EXCEPT !.LastOp = OpCheckFailDB],
          err |-> ReadErr, panic |-> "none"]
    ELSE checkCStoreSchema(c, read.found)

\* --- geconfsql.InsertEntriesIntoDB ---

MaxEntries == 2

MaxAffected == 2

\* errors.Wrapf of github.com/pkg/errors: a nil error stays nil
Wrapf(err, message) ==
    IF err = NilErr THEN NilErr ELSE [failed |-> message]

\* what the database does with one INSERT: stmt.Exec fails, or
\* result.RowsAffected fails, or the affected-row count it reports
InsertOutcomes ==
    {[insErr |-> TRUE, rowsErr |-> FALSE, nAffected |-> 0],
     [insErr |-> FALSE, rowsErr |-> TRUE, nAffected |-> 0]}
    \cup {[insErr |-> FALSE, rowsErr |-> FALSE, nAffected |-> n] : n \in 0..MaxAffected}

InsertEnvs(n) ==
    [prepareFails : BOOLEAN, outcomes : [1..n -> InsertOutcomes]]

\* InsertEntriesIntoDB(db, insertSQL, confEntries); env is what the
\* database does.  execs lists the statements executed.  In the last
\* test of the loop body err is the nil error of RowsAffected.
InsertEntriesIntoDB(confEntries, env) ==
    LET start == [err |-> NilErr, execs |-> <<>>, done |-> FALSE]
        exec(prev, i) ==
            [prev EXCEPT !.execs = Append(@,
                [entry |-> i,
                 elem |-> TrimSpace(confEntries[i].ConfElement),
                 prop |-> TrimSpace(confEntries[i].ConfProperty),
                 val |-> TrimSpace(confEntries[i].ConfValue),
                 outcome |-> env.outcomes[i]])]
        body(prev, i) ==
            IF prev.done THEN prev
            ELSE IF TrimSpace(confEntries[i].ConfProperty) = <<>> THEN prev
            ELSE IF TrimSpace(confEntries[i].ConfValue) = <<>> THEN prev
            ELSE IF env.outcomes[i].insErr
                THEN [exec(prev, i) EXCEPT !.done = TRUE,
                        !.err = Wrapf([failed |-> "Exec"], "failed to insert conf entry")]
            ELSE IF env.outcomes[i].rowsErr
                THEN [exec(prev, i) EXCEPT !.done = TRUE,
                        !.err = Wrapf([failed |-> "RowsAffected"], "Cannot get affected count")]
            ELSE IF env.outcomes[i].nAffected # 1
                THEN [exec(prev, i) EXCEPT !.done = TRUE,
                        !.err = Wrapf(NilErr, "Affected count is != 1")]
            ELSE exec(prev, i)
        step[i \in 0..Len(confEntries)] ==
            IF i = 0 THEN start
            ELSE TheOne({body(p, i) : p \in {step[i - 1]}})
    IN  IF env.prepareFails
        THEN [err |-> [failed |-> "Prepare"], execs |-> <<>>]
        ELSE [err |-> step[Len(confEntries)].err,
              execs |-> step[Len(confEntries)].execs]

\* writeConfToDB(c, confEntries)
writeConfToDB(c, confEntries, env) ==
    InsertEntriesIntoDB(confEntries, env)

\* the entries a caller may pass: plain ones, one whose property is
\* blank, one whose value is blank, one whose texts carry spaces
InsertEntries ==
    {Entry(<<>>, <<"P">>, <<"v">>),
     Entry(<<"e">>, <<"Q">>, <<"w">>),
     Entry(<<"e">>, <<" ">>, <<"v">>),
     Entry(<<"e">>, <<"P">>, <<" ", " ">>),
     Entry(<<" ", "e">>, <<"P", " ">>, <<" ", "v">>)}

InsertLists ==
    UNION {[1..n -> InsertEntries] : n \in 0..MaxEntries}

InitInsert ==
    /\ CodecIdle
    /\ SchemaIdle
    /\ sd = NoSQLDef
    /\ run = NoRun
    /\ \E confEntries \in InsertLists :
       \E env \in InsertEnvs(MaxEntries) :
          call = [fn |-> "InsertEntriesIntoDB", done |-> FALSE,
                  confEntries |-> confEntries, env |-> env,
                  err |-> NilErr, execs |-> <<>>]

CallInsertEntriesIntoDB ==
    /\ call.fn = "InsertEntriesIntoDB"
    /\ ~call.done
    /\ \E out \in {InsertEntriesIntoDB(call.confEntries, call.env)} :
          call' = [call EXCEPT !.done = TRUE, !.err = out.err, !.execs = out.execs]
    /\ UNCHANGED <<codecVars, report, sd, run>>

NextInsert == CallInsertEntriesIntoDB

SpecInsert == InitInsert /\ [][NextInsert]_vars

\* the entries InsertEntriesIntoDB does not skip
NonSkipped(confEntries) ==
    {i \in 1..Len(confEntries) :
        /\ TrimSpace(confEntries[i].ConfProperty) # <<>>
        /\ TrimSpace(confEntries[i].ConfValue) # <<>>}

\* C24: InsertEntriesIntoDB returns a non-nil error whenever an insert
\* executes successfully but its affected-row count is not 1, and returns
\* nil only if every non-skipped entry was inserted with affected count 1.
InsertChecksAffectedCount ==
    (call.fn = "InsertEntriesIntoDB" /\ call.done) =>
        /\ (\E k \in 1..Len(call.execs) :
               /\ ~call.execs[k].outcome.insErr
               /\ ~call.execs[k].outcome.rowsErr
               /\ call.execs[k].outcome.nAffected # 1)
           => call.err # NilErr
        /\ call.err = NilErr =>
               \A i \in NonSkipped(call.confEntries) :
                  \E k \in 1..Len(call.execs) :
                     /\ call.execs[k].entry = i
                     /\ ~call.execs[k].outcome.insErr
                     /\ ~call.execs[k].outcome.rowsErr
                     /\ call.execs[k].outcome.nAffected = 1

\* --- CreateCStoreSchemaElements, DropCStoreSchemaElements ---

ConfTableMissing == [failed |-> "Conf table missing"]

ConfTableMismatched == [failed |-> "Conf table mismatched"]

ConfTableExists ==
    [failed |-> "This SQLDef instance was made by CreateSQLStore() but conf table exists in DB"]

\* the switch on the status of the conf table with a mismatched table let
\* through as if it were missing
confTableGuardLenient(createStoreReq, confTableStatus) ==
    CASE confTableStatus = "MissingES" ->
            IF ~createStoreReq
            THEN [err |-> ConfTableMissing, panic |-> "none", needWriteConf |-> FALSE]
            ELSE [err |-> NilErr, panic |-> "none", needWriteConf |-> TRUE]
      [] confTableStatus = "MismatchedES" ->
            [err |-> NilErr, panic |-> "none", needWriteConf |-> TRUE]
      [] confTableStatus = "MatchedES" ->
            IF createStoreReq
            THEN [err |-> ConfTableExists, panic |-> "none", needWriteConf |-> FALSE]
            ELSE [err |-> NilErr, panic |-> "none", needWriteConf |-> FALSE]
      [] OTHER ->
            [err |-> NilErr, panic |-> "Unexpected schema element status code",
             needWriteConf |-> FALSE]

\* the switch on the status of the conf table in CreateCStoreSchemaElements
confTableGuard(createStoreReq, confTableStatus) ==
    CASE confTableStatus = "MissingES" ->
            IF ~createStoreReq
            THEN [err |-> ConfTableMissing, panic |-> "none", needWriteConf |-> FALSE]
            ELSE [err |-> NilErr, panic |-> "none", needWriteConf |-> TRUE]
      [] confTableStatus = "MismatchedES" ->
            [err |-> ConfTableMismatched, panic |-> "none", needWriteConf |-> FALSE]
      [] confTableStatus = "MatchedES" ->
            IF createStoreReq
            THEN [err |-> ConfTableExists, panic |-> "none", needWriteConf |-> FALSE]
            ELSE [err |-> NilErr, panic |-> "none", needWriteConf |-> FALSE]
      [] OTHER ->
            [err |-> NilErr, panic |-> "Unexpected schema element status code",
             needWriteConf |-> FALSE]

\* (*cstoreSQLiteDef).CreateCStoreSchemaElements; c is the SQLDef with its
\* report, read is what ReadFromDB returned, failing the CREATE statements
\* the database rejects, env what it does with the INSERT statements.
\* The result holds the report as left in sd.report, the returned error,
\* the CREATE statements (log) and the INSERT statements (writes) executed
\* and the conf table status the switch looked at ("none": not reached).
CreateCStoreSchemaElements(c, read, failing, env) ==
    LET stopped(r, err, panic, status) ==
            [report |-> r, err |-> err, panic |-> panic, log |-> <<>>,
             writes |-> <<>>, confTableStatus |-> status]
        finish(cr, guard, status) ==
            IF cr.panic # "none" \/ cr.err # NilErr \/ ~guard.needWriteConf
            THEN [report |-> cr.r, err |-> cr.err, panic |-> cr.panic, log |-> cr.log,
                  writes |-> <<>>, confTableStatus |-> status]
            ELSE TheOne({[report |-> cr.r, err |-> w.err, panic |-> "none",
                          log |-> cr.log, writes |-> w.execs,
                          confTableStatus |-> status] :
                         w \in {writeConfToDB(c, c.dbConf, env)}})
        create(r, guard, status) ==
            IF guard.panic # "none" THEN stopped(r, NilErr, guard.panic, status)
            ELSE IF guard.err # NilErr THEN stopped(r, guard.err, "none", status)
            ELSE TheOne({finish(cr, guard, status) :
                         cr \in {CreateElements(r, c.elementDefs, "MissingES", failing)}})
        switch(r) ==
            TheOne({create(r, guard, r.Elements[tableCStoreConfEI].Status) :
                    guard \in {confTableGuard(c.createStoreReq,
                                              r.Elements[tableCStoreConfEI].Status)}})
        checked(chk) ==
            IF chk.panic # "none" THEN stopped(chk.report, NilErr, chk.panic, "none")
            ELSE IF chk.err # NilErr
                THEN stopped(chk.report, Wrapf(chk.err, "strange: check schema error"),
                             "none", "none")
            ELSE switch(chk.report)
    IN  IF ~read.failed
        THEN TheOne({checked(chk) : chk \in {checkCStoreSchema(c, read.found)}})
        ELSE IF ~c.createStoreReq
            THEN stopped([c.report EXCEPT
                            !.LastOp = "check before create failed to get DB schema"],
                         ReadErr, "none", "none")
        ELSE switch(c.report)

\* (*cstoreSQLiteDef).DropCStoreSchemaElements
DropCStoreSchemaElements(c, failing) ==
    DropReportedElements(c.report, TRUE, failing)

\* what ReadFromDB may find under the name of element i: nothing, the
\* element as defined, its statement with surrounding space, another
\* statement, or an element of another type
MaxDefElems == 2

FoundKinds == {"absent", "same", "spaced", "otherSQL", "otherType"}

FoundAs(i, kind) ==
    [Name |-> i,
     ElemType |-> IF kind = "otherType" THEN "IndexElem"
                  ELSE StoreElementDefs(MaxDefElems)[i].ElemType,
     CreateSQL |-> CASE kind = "spaced" ->
                          <<" ">> \o StoreElementDefs(MaxDefElems)[i].CreateSQL \o <<" ">>
                     [] kind = "otherSQL" -> <<"X">>
                     [] OTHER -> StoreElementDefs(MaxDefElems)[i].CreateSQL,
     present |-> kind # "absent"]

\* an element of the database that the store does not define
ForeignFound ==
    [Name |-> MaxDefElems + 1, ElemType |-> "TableElem", CreateSQL |-> <<"X">>,
     present |-> TRUE]

IsPresent(e) == e.present

\* the lists ReadFromDB may return: per element one of the kinds (the
\* elements after the conf table only absent or same), or a
\* list naming the conf table twice, or one with a foreign element
FoundLists ==
    {SelectSeq([i \in 1..MaxDefElems |-> FoundAs(i, kinds[i])], IsPresent) :
        kinds \in {k \in [1..MaxDefElems -> FoundKinds] :
                      \A i \in 2..MaxDefElems : k[i] \in {"absent", "same"}}}
    \cup {<<FoundAs(1, "otherSQL"), FoundAs(1, "same")>>,
          <<FoundAs(1, "same"), FoundAs(1, "otherType")>>,
          <<ForeignFound>>, <<FoundAs(1, "same"), ForeignFound>>}

DbReads ==
    {[failed |-> TRUE, found |-> <<>>]}
    \cup {[failed |-> FALSE, found |-> f] : f \in FoundLists}

\* the INSERT outcomes enumerated for writeConfToDB: the statement is
\* not prepared, or each insert fails, affects no row or affects one
DefInsertEnvs(n) ==
    {env \in InsertEnvs(n) :
        /\ \A i \in 1..n : ~env.outcomes[i].rowsErr /\ env.outcomes[i].nAffected <= 1
        /\ env.prepareFails => \A i \in 1..n : env.outcomes[i].nAffected = 1}

NoInsertFailure(n) ==
    [prepareFails |-> FALSE,
     outcomes |-> [i \in 1..n |-> [insErr |-> FALSE, rowsErr |-> FALSE, nAffected |-> 1]]]

\* the SQLDef as OpenSQLStore or CreateSQLStore returns it: the report
\* initialized by setupElements, no operation yet
InitDef ==
    /\ CodecIdle
    /\ run = NoRun
    /\ call = NoCall
    /\ \E createStoreReq \in BOOLEAN :
          sd = [prefix |-> <<"c", "s", "t", "1", "_">>,
                dbConf |-> prependImplInfoToConf(
                    <<Entry(<<"c", "r", "e", "c", "_", "*">>,
                            <<"I", "O", "T", "L", "1">>, <<"y">>)>>),
                elementDefs |-> StoreElementDefs(MaxDefElems),
                createStoreReq |-> createStoreReq]
    /\ report = InitOpReportElements(ZeroReport, StoreElementDefs(MaxDefElems))

SQLDefWithReport ==
    [prefix |-> sd.prefix, dbConf |-> sd.dbConf, elementDefs |-> sd.elementDefs,
     createStoreReq |-> sd.createStoreReq, report |-> report]

MaxOps == 2

\* the process is alive (a panic ends it) and has made fewer than MaxOps
\* calls on its SQLDef
DefAlive ==
    /\ sd # NoSQLDef
    /\ call.fn # "none" => (call.panic = "none" /\ call.n < MaxOps)

DefCall(fn, read, out, log, writes, status) ==
    [fn |-> fn, n |-> IF call.fn = "none" THEN 1 ELSE call.n + 1,
     readFailed |-> read.failed, lastOpBefore |-> report.LastOp,
     err |-> out.err, panic |-> out.panic, log |-> log, writes |-> writes,
     confTableStatus |-> status]

CallCheckCStoreSchema ==
    /\ DefAlive
    /\ \E read \in DbReads :
       \E out \in {CheckCStoreSchema(SQLDefWithReport, read)} :
          /\ report' = out.report
          /\ call' = DefCall("CheckCStoreSchema", read, out, <<>>, <<>>, "none")
    /\ UNCHANGED <<codecVars, sd, run>>

\* the database's answers are enumerated as far as the call consults
\* them: a rejected CREATE only among the statements it would execute,
\* INSERT outcomes only when it goes on to write the configuration
CallCreateCStoreSchemaElements ==
    /\ DefAlive
    /\ \E read \in DbReads :
       \E smooth \in {CreateCStoreSchemaElements(SQLDefWithReport, read, {},
                                                 NoInsertFailure(Len(sd.dbConf)))} :
       \E failing \in {{}} \cup {{smooth.log[k].elem} : k \in 1..Len(smooth.log)} :
       \E created \in {CreateCStoreSchemaElements(SQLDefWithReport, read, failing,
                                                  NoInsertFailure(Len(sd.dbConf)))} :
       \E env \in IF created.writes = <<>>
                  THEN {NoInsertFailure(Len(sd.dbConf))}
                  ELSE DefInsertEnvs(Len(sd.dbConf)) :
       \E out \in {CreateCStoreSchemaElements(SQLDefWithReport, read, failing, env)} :
          /\ report' = out.report
          /\ call' = DefCall("CreateCStoreSchemaElements", read, out, out.log,
                             out.writes, out.confTableStatus)
    /\ UNCHANGED <<codecVars, sd, run>>

CallDropCStoreSchemaElements ==
    /\ DefAlive
    /\ \E failing \in SUBSET (1..MaxDefElems) :
       \E out \in {DropCStoreSchemaElements(SQLDefWithReport, failing)} :
          /\ report' = out.r
          /\ call' = DefCall("DropCStoreSchemaElements", [failed |-> FALSE], out,
                             out.log, <<>>, "none")
    /\ UNCHANGED <<codecVars, sd, run>>

NextDef ==
    \/ CallCheckCStoreSchema
    \/ CallCreateCStoreSchemaElements
    \/ CallDropCStoreSchemaElements

SpecDef == InitDef /\ [][NextDef]_vars

\* C21: when the SQLDef came from CreateSQLStore and the schema read of
\* CreateCStoreSchemaElements fails, the method neither returns the read
\* error nor panics but goes on to create the elements, whatever calls
\* were made on the SQLDef before.
CreateIgnoresReadFailure ==
    (/\ call.fn = "CreateCStoreSchemaElements"
     /\ sd.createStoreReq
     /\ call.readFailed)
    => /\ call.panic = "none"
       /\ call.err # ReadErr
       /\ report.LastOp = "create"

\* C22: CreateCStoreSchemaElements executes no CREATE statement and writes
\* no configuration entry when it returns a guard error (conf table
\* mismatched, conf table missing without a create request, conf table
\* matched on an SQLDef of CreateSQLStore, schema read failure without a
\* create request); entries are written only when the conf table was
\* found missing, creation was requested and every creation succeeded.
CreateGuardsWriteNothing ==
    call.fn = "CreateCStoreSchemaElements" =>
        /\ call.err \in {ConfTableMismatched, ConfTableMissing, ConfTableExists, ReadErr}
           => (call.log = <<>> /\ call.writes = <<>>)
        /\ call.err = ConfTableMissing => ~sd.createStoreReq
        /\ call.err = ConfTableExists => sd.createStoreReq
        /\ call.err = ReadErr => (call.readFailed /\ ~sd.createStoreReq)
        /\ call.writes # <<>>
           => /\ call.confTableStatus = "MissingES"
              /\ sd.createStoreReq
              /\ call.panic = "none"
              /\ call.log # <<>>
              /\ \A k \in 1..Len(call.log) : call.log[k].ok

\* the conf table is found mismatched while another element is missing:
\* the call returns the guard error and creates nothing
CreateGuardsWriteNothingWitness ==
    /\ call.fn = "CreateCStoreSchemaElements"
    /\ ~call.readFailed
    /\ call.err = ConfTableMismatched
    /\ report.NumMissing >= 1
    /\ call.log = <<>>
    /\ call.writes = <<>>

\* C23: after a checkCStoreSchema run every element is MissingES,
\* MatchedES or MismatchedES, NumFound = NumMatched + NumMismatched,
\* NumFound + NumMissing = NumExpected = len(Elements), LastOp is
\* "check", and the counters count the statuses of this run alone.
CheckLeavesConsistentReport ==
    (/\ call.fn = "CheckCStoreSchema"
     /\ ~call.readFailed
     /\ call.panic = "none")
    => /\ \A i \in 1..Len(report.Elements) :
             report.Elements[i].Status \in {"MissingES", "MatchedES", "MismatchedES"}
       /\ report.NumFound = report.NumMatched + report.NumMismatched
       /\ report.NumFound + report.NumMissing = report.NumExpected
       /\ report.NumExpected = Len(report.Elements)
       /\ report.LastOp = OpCheck
       /\ report.NumMatched = Cardinality({i \in 1..Len(report.Elements) :
                                  report.Elements[i].Status = "MatchedES"})
       /\ report.NumMismatched = Cardinality({i \in 1..Len(report.Elements) :
                                  report.Elements[i].Status = "MismatchedES"})
       /\ report.NumMissing = Cardinality({i \in 1..Len(report.Elements) :
                                  report.Elements[i].Status = "MissingES"})

\* a check that follows a check, with an element found and one missing
CheckLeavesConsistentReportWitness ==
    /\ call.fn = "CheckCStoreSchema"
    /\ ~call.readFailed
    /\ call.lastOpBefore = OpCheck
    /\ report.NumMismatched >= 1
    /\ report.NumMissing >= 1

====
